---- MODULE Spec2Model ----
(***************************************************************************)
(* Verification model of GhostKG: the AgentCache (memory/cache.py), the    *)
(* FSRS scheduler (memory/fsrs.py) and the GhostAgent write and read paths *)
(* (core/agent.py) over the KnowledgeDB node/edge store                    *)
(* (storage/database.py).                                                  *)
(***************************************************************************)
EXTENDS Integers, Sequences, FiniteSets, TLC

(***************************************************************************)
(* Bounds of the model                                                     *)
(***************************************************************************)
MaxSize == 2        \* max_size ranges over 1..MaxSize
MaxCounter == 4     \* cap on _access_counter (stamps handed out between two clear())
MaxCalls == 3       \* calls the threads start in the concurrent specification
MaxReviews == 3     \* reviews (update_memory runs) over all concepts
MaxSentimentIndex == 200    \* sentiments are the multiples of 0.005 up to this many
MaxReviewCalls == 3  \* update_memory calls the reviewers start between them
MaxGets == 2        \* calls of the singleton getters per caller

None == "None"

CacheAgents == {"Alice", "Bob"}
CacheTopics == {"climate", "ubi"}
\* (agent, topic, time_filter) argument triples of the memory-view calls
MemArgs == { <<"Alice", "climate", None>>, <<"Alice", "climate", "recent">> }
Values == {"v1", "v2"}
Maps == {"context", "memory"}

VARIABLES
    max_size,         \* AgentCache.max_size
    enabled,          \* AgentCache.enabled
    context_cache,    \* AgentCache._context_cache : key -> [value, stamp]
    memory_cache,     \* AgentCache._memory_cache  : key -> [value, stamp]
    access_counter,   \* AgentCache._access_counter
    last_call,        \* the call that ran last: [op, map, args]
    ret,              \* what that call returned
    lru_order,        \* reference LRU list per map: <<args, value, last access kind>>, oldest access first
    ref_evicted,      \* the args the reference LRU list dropped in the last call, or <<>>
    inval,            \* [active: no put since the last invalidate_agent, agents: whose entries it removed]
    lock,             \* AgentCache._lock: the thread holding it, or None
    pc,               \* per thread: the line of the cache method it is at
    op,               \* per thread: the call it runs (or ran last)
    local,            \* per thread: locals of the running call (lru_key, value, count)
    tret,             \* per thread: what its last call returned
    evictions,        \* per thread: entries its current put has deleted
    raised,           \* threads whose call ended in an exception
    calls,            \* calls started so far
    own_put,          \* per thread: its last put, while nothing has removed or replaced it
    current_time,     \* GhostAgent.current_time (SimulationTime)
    nodes,            \* KnowledgeDB nodes table: <<owner_id, id>> -> row
    edges,            \* KnowledgeDB edges table: <<owner_id, source, target, relation>> -> row
    agent_call,       \* the GhostAgent call that ran last
    agent_exc,        \* the exception that call ended with, or None
    reviews_done,     \* reviews run so far
    view,             \* what the last get_memory_view returned, and the rows it read
    db_reads,         \* store queries the last get_memory_view made
    feed,             \* the triples that reach KnowledgeDB.add_relation directly, in order
    fed,              \* how many of them were added
    absorb,           \* the CognitiveLoop.absorb that runs or ran last: its data, its place in them, its calls
    pure_call,        \* the last call of a function that touches no state: [op, args, result]
    singleton,        \* ModelCache._model/_lock and cache._global_cache/_cache_lock, and their callers
    reviewers         \* the update_memory calls that run side by side on one concept, line by line

cacheVars == <<max_size, enabled, context_cache, memory_cache, access_counter>>
seqVars == <<last_call, ret, lru_order, ref_evicted, inval>>
thrVars == <<lock, pc, op, local, tret, evictions, raised, calls, own_put>>
viewVars == <<view, db_reads, feed, fed, absorb>>
pureVars == <<pure_call, singleton, reviewers>>
agentVars == <<current_time, nodes, edges, agent_call, agent_exc, reviews_done, viewVars,
               pureVars>>
vars == <<max_size, enabled, context_cache, memory_cache, access_counter,
          last_call, ret, lru_order, ref_evicted, inval,
          lock, pc, op, local, tret, evictions, raised, calls, own_put,
          current_time, nodes, edges, agent_call, agent_exc, reviews_done,
          view, db_reads, feed, fed, absorb, pure_call, singleton, reviewers>>

(***************************************************************************)
(* AgentCache helpers                                                      *)
(***************************************************************************)
\* _make_key(*args): json.dumps of the argument tuple, then md5.  json.dumps is
\* injective on tuples of strings/None and the digest is taken as collision
\* free, so the key is the argument tuple itself.
MakeKeyDropTopic(args) == <<args[1], args[2]>>
MakeKey(args) == args

EmptyCache == [k \in {} |-> [value |-> None, stamp |-> 0]]

\* the entry min(cache.items(), key=lambda x: x[1][1]) selects
LruKeyNewest(cache) ==
    CHOOSE k \in DOMAIN cache : \A j \in DOMAIN cache : cache[k].stamp >= cache[j].stamp
LruKey(cache) ==
    CHOOSE k \in DOMAIN cache : \A j \in DOMAIN cache : cache[k].stamp <= cache[j].stamp

Remove(cache, key) == [k \in DOMAIN cache \ {key} |-> cache[k]]
Store(cache, key, value, stamp) ==
    [k \in DOMAIN cache \cup {key} |->
        IF k = key THEN [value |-> value, stamp |-> stamp] ELSE cache[k]]

\* _evict_lru(cache)
EvictLru(cache, maxSize) ==
    IF Cardinality(DOMAIN cache) >= maxSize
    THEN Remove(cache, LruKey(cache))
    ELSE cache

\* the `with self._lock:` body of put_context / put_memory_view
NeedsEvictionStrict(cache, key, maxSize) ==
    key \notin DOMAIN cache /\ Cardinality(DOMAIN cache) > maxSize
NeedsEviction(cache, key, maxSize) ==
    key \notin DOMAIN cache /\ Cardinality(DOMAIN cache) >= maxSize

PutBodyEvictsWhenFull(cache, key, value, counter, maxSize) ==
    LET c1 == IF Cardinality(DOMAIN cache) >= maxSize THEN EvictLru(cache, maxSize) ELSE cache
    IN Store(c1, key, value, counter + 1)
PutBody(cache, key, value, counter, maxSize) ==
    LET c1 == IF NeedsEviction(cache, key, maxSize) THEN EvictLru(cache, maxSize) ELSE cache
    IN Store(c1, key, value, counter + 1)

\* the `with self._lock:` body of get_context / get_memory_view on a hit
GetBodyNoTouch(cache, key, counter) == cache
GetBody(cache, key, counter) == Store(cache, key, cache[key].value, counter + 1)

(***************************************************************************)
(* Reference LRU list (specification-side bookkeeping, not program state)  *)
(***************************************************************************)
RECURSIVE Without(_, _)
Without(seq, args) ==
    IF seq = <<>> THEN <<>>
    ELSE IF Head(seq)[1] = args THEN Without(Tail(seq), args)
    ELSE <<Head(seq)>> \o Without(Tail(seq), args)

Listed(seq, args) == \E i \in 1..Len(seq) : seq[i][1] = args
ListedValue(seq, args) == (CHOOSE i \in 1..Len(seq) : seq[i][1] = args)
RefValue(seq, args) == IF Listed(seq, args) THEN seq[ListedValue(seq, args)][2] ELSE None

RefDrops(seq, args, maxSize) == ~Listed(seq, args) /\ Len(seq) >= maxSize
RefPut(seq, args, value, maxSize) ==
    LET s1 == IF RefDrops(seq, args, maxSize) THEN Tail(seq) ELSE seq
    IN Append(Without(s1, args), <<args, value, "put">>)
RefGet(seq, args) ==
    IF Listed(seq, args)
    THEN Append(Without(seq, args), <<args, RefValue(seq, args), "get">>)
    ELSE seq
RefAgents == UNION { { lru_order[m][i][1][2] : i \in 1..Len(lru_order[m]) } : m \in Maps }

(***************************************************************************)
(* AgentCache operations, one call per step (single caller)                *)
(***************************************************************************)
CacheOf(m) == IF m = "context" THEN context_cache ELSE memory_cache

Call(name, m, args, value) == [op |-> name, map |-> m, args |-> args, value |-> value]
Ret(value, count) == [value |-> value, count |-> count]

InitCache ==
    /\ max_size \in 1..MaxSize
    /\ enabled \in BOOLEAN
    /\ context_cache = EmptyCache
    /\ memory_cache = EmptyCache
    /\ access_counter = 0

\* AgentCache() with the defaults of __init__
DefaultMaxSize == 128
InitDefaultCache ==
    /\ max_size = DefaultMaxSize
    /\ enabled = TRUE
    /\ context_cache = EmptyCache
    /\ memory_cache = EmptyCache
    /\ access_counter = 0

InitSeq ==
    /\ last_call = Call("init", None, <<>>, None)
    /\ ret = Ret(None, 0)
    /\ lru_order = [m \in Maps |-> <<>>]
    /\ ref_evicted = <<>>
    /\ inval = [active |-> FALSE, agents |-> {}]

\* reference-side effect of a put / get on map m
NotePut(m, args, value) ==
    IF enabled
    THEN /\ lru_order' = [lru_order EXCEPT ![m] = RefPut(@, args, value, max_size)]
         /\ ref_evicted' = IF RefDrops(lru_order[m], args, max_size)
                           THEN Head(lru_order[m])[1] ELSE <<>>
         /\ inval' = [active |-> FALSE, agents |-> {}]
    ELSE /\ ref_evicted' = <<>>
         /\ UNCHANGED <<lru_order, inval>>
NoteGet(m, args) ==
    /\ lru_order' = IF enabled THEN [lru_order EXCEPT ![m] = RefGet(@, args)] ELSE lru_order
    /\ ref_evicted' = <<>>
    /\ UNCHANGED inval

\* put_context(agent_name, topic, context)
PutContext(agent_name, topic, context) ==
    LET args == <<"context", agent_name, topic>> IN
    /\ access_counter < MaxCounter
    /\ IF enabled
       THEN /\ context_cache' = PutBody(context_cache, MakeKey(args), context,
                                        access_counter, max_size)
            /\ access_counter' = access_counter + 1
       ELSE UNCHANGED <<context_cache, access_counter>>
    /\ NotePut("context", args, context)
    /\ last_call' = Call("put", "context", args, context)
    /\ ret' = Ret(None, 0)
    /\ UNCHANGED <<max_size, enabled, memory_cache>>
    /\ UNCHANGED <<thrVars, agentVars>>

\* get_context(agent_name, topic)
GetContext(agent_name, topic) ==
    LET args == <<"context", agent_name, topic>>
        key == MakeKey(args) IN
    /\ access_counter < MaxCounter
    /\ IF enabled /\ key \in DOMAIN context_cache
       THEN /\ context_cache' = GetBody(context_cache, key, access_counter)
            /\ access_counter' = access_counter + 1
            /\ ret' = Ret(context_cache[key].value, 0)
       ELSE /\ UNCHANGED <<context_cache, access_counter>>
            /\ ret' = Ret(None, 0)
    /\ NoteGet("context", args)
    /\ last_call' = Call("get", "context", args, None)
    /\ UNCHANGED <<max_size, enabled, memory_cache>>
    /\ UNCHANGED <<thrVars, agentVars>>

\* put_memory_view(agent_name, data, topic, time_filter)
PutMemoryView(agent_name, data, topic, time_filter) ==
    LET args == <<"memory", agent_name, topic, time_filter>> IN
    /\ access_counter < MaxCounter
    /\ IF enabled
       THEN /\ memory_cache' = PutBody(memory_cache, MakeKey(args), data,
                                       access_counter, max_size)
            /\ access_counter' = access_counter + 1
       ELSE UNCHANGED <<memory_cache, access_counter>>
    /\ NotePut("memory", args, data)
    /\ last_call' = Call("put", "memory", args, data)
    /\ ret' = Ret(None, 0)
    /\ UNCHANGED <<max_size, enabled, context_cache>>
    /\ UNCHANGED <<thrVars, agentVars>>

\* get_memory_view(agent_name, topic, time_filter)
GetMemoryView(agent_name, topic, time_filter) ==
    LET args == <<"memory", agent_name, topic, time_filter>>
        key == MakeKey(args) IN
    /\ access_counter < MaxCounter
    /\ IF enabled /\ key \in DOMAIN memory_cache
       THEN /\ memory_cache' = GetBody(memory_cache, key, access_counter)
            /\ access_counter' = access_counter + 1
            /\ ret' = Ret(memory_cache[key].value, 0)
       ELSE /\ UNCHANGED <<memory_cache, access_counter>>
            /\ ret' = Ret(None, 0)
    /\ NoteGet("memory", args)
    /\ last_call' = Call("get", "memory", args, None)
    /\ UNCHANGED <<max_size, enabled, context_cache>>
    /\ UNCHANGED <<thrVars, agentVars>>

\* invalidate_agent(agent_name): what it leaves of each map
InvalidatedContextScoped(agent_name) ==
    [k \in {j \in DOMAIN context_cache : j[2] # agent_name} |-> context_cache[k]]
InvalidatedContext(agent_name) == EmptyCache
InvalidatedMemory(agent_name) == EmptyCache

\* get_stats()["total_entries"]
TotalEntries == Cardinality(DOMAIN context_cache) + Cardinality(DOMAIN memory_cache)

\* invalidate_agent(agent_name)
InvalidateAgent(agent_name) ==
    /\ context_cache' = InvalidatedContext(agent_name)
    /\ memory_cache' = InvalidatedMemory(agent_name)
    /\ ret' = Ret(None, TotalEntries)
    /\ lru_order' = [m \in Maps |-> <<>>]
    /\ ref_evicted' = <<>>
    /\ inval' = [active |-> TRUE, agents |-> RefAgents]
    /\ last_call' = Call("invalidate", None, <<agent_name>>, None)
    /\ UNCHANGED <<max_size, enabled, access_counter>>
    /\ UNCHANGED <<thrVars, agentVars>>

\* clear()
Clear ==
    /\ context_cache' = EmptyCache
    /\ memory_cache' = EmptyCache
    /\ access_counter' = 0
    /\ ret' = Ret(None, 0)
    /\ lru_order' = [m \in Maps |-> <<>>]
    /\ ref_evicted' = <<>>
    /\ last_call' = Call("clear", None, <<>>, None)
    /\ UNCHANGED <<max_size, enabled, inval>>
    /\ UNCHANGED <<thrVars, agentVars>>

\* get_stats()
GetStats ==
    /\ ret' = Ret(None, TotalEntries)
    /\ last_call' = Call("stats", None, <<>>, None)
    /\ ref_evicted' = <<>>
    /\ UNCHANGED <<cacheVars, lru_order, inval>>
    /\ UNCHANGED <<thrVars, agentVars>>

(***************************************************************************)
(* AgentCache under concurrent callers: one step per source line, the      *)
(* `with self._lock:` block entered by Acquire and left by Release/Raise   *)
(***************************************************************************)
Threads == {"t1", "t2"}
ThreadCtxArgs == { <<"context", "Alice", "climate">>, <<"context", "Alice", "ubi">> }
ThreadMemArgs == { <<"memory", "Alice", None, None>> }
ThreadCalls ==
    { Call("put", "context", a, v) : a \in ThreadCtxArgs, v \in Values }
    \cup { Call("get", "context", a, None) : a \in ThreadCtxArgs }
    \cup { Call("put", "memory", a, v) : a \in ThreadMemArgs, v \in Values }
    \cup { Call("get", "memory", a, None) : a \in ThreadMemArgs }
    \cup { Call("invalidate", None, <<"Alice">>, None) }
    \cup { Call("stats", None, <<>>, None) }

NoLocal == [lru |-> <<>>, value |-> None, count |-> 0]
NoPut == [map |-> None, args |-> <<>>, value |-> None]

InitThreads ==
    /\ lock = None
    /\ pc = [t \in Threads |-> "idle"]
    /\ op = [t \in Threads |-> Call("init", None, <<>>, None)]
    /\ local = [t \in Threads |-> NoLocal]
    /\ tret = [t \in Threads |-> Ret(None, 0)]
    /\ evictions = [t \in Threads |-> 0]
    /\ raised = {}
    /\ calls = 0
    /\ own_put = [t \in Threads |-> NoPut]

\* threading.Lock: acquire blocks while another thread holds the lock
LockFreeNoExclusion == TRUE
LockFree == lock = None

SetCache(m, c) ==
    IF m = "context"
    THEN context_cache' = c /\ UNCHANGED memory_cache
    ELSE memory_cache' = c /\ UNCHANGED context_cache

Goto(t, label) == pc' = [pc EXCEPT ![t] = label]

\* a thread calls a method; `if not self.enabled: return` runs before the lock
Begin(t, call) ==
    /\ pc[t] = "idle"
    /\ calls < MaxCalls
    /\ calls' = calls + 1
    /\ op' = [op EXCEPT ![t] = call]
    /\ local' = [local EXCEPT ![t] = NoLocal]
    /\ evictions' = [evictions EXCEPT ![t] = 0]
    /\ IF ~enabled /\ call.op \in {"put", "get"}
       THEN tret' = [tret EXCEPT ![t] = Ret(None, 0)] /\ UNCHANGED pc
       ELSE Goto(t, "lock") /\ UNCHANGED tret
    /\ UNCHANGED <<cacheVars, seqVars, agentVars, lock, raised, own_put>>

\* with self._lock:
Acquire(t) ==
    /\ pc[t] = "lock"
    /\ LockFree
    /\ lock' = t
    /\ Goto(t, CASE op[t].op = "put" -> "put_check"
                 [] op[t].op = "get" -> "get_check"
                 [] op[t].op = "invalidate" -> "inv_count"
                 [] OTHER -> "stats")
    /\ UNCHANGED <<cacheVars, seqVars, agentVars, op, local, tret, evictions, raised, calls, own_put>>

\* leaving the with block by return
Release(t, value, count) ==
    /\ lock' = IF lock = t THEN None ELSE lock
    /\ Goto(t, "idle")
    /\ tret' = [tret EXCEPT ![t] = Ret(value, count)]
    /\ local' = [local EXCEPT ![t] = NoLocal]

\* leaving the with block by an exception
Raise(t) ==
    /\ lock' = IF lock = t THEN None ELSE lock
    /\ Goto(t, "idle")
    /\ raised' = raised \cup {t}
    /\ tret' = [tret EXCEPT ![t] = Ret(None, 0)]
    /\ local' = [local EXCEPT ![t] = NoLocal]

\* cache.py:124 / 180  if key not in cache and len(cache) >= self.max_size
PutCheck(t) ==
    /\ pc[t] = "put_check"
    /\ IF NeedsEviction(CacheOf(op[t].map), MakeKey(op[t].args), max_size)
       THEN Goto(t, "evict_len")
       ELSE Goto(t, "put_stamp")
    /\ UNCHANGED <<cacheVars, seqVars, agentVars, lock, op, local, tret, evictions, raised, calls, own_put>>

\* cache.py:78  if len(cache) >= self.max_size
EvictLen(t) ==
    /\ pc[t] = "evict_len"
    /\ IF Cardinality(DOMAIN CacheOf(op[t].map)) >= max_size
       THEN Goto(t, "evict_min")
       ELSE Goto(t, "put_stamp")
    /\ UNCHANGED <<cacheVars, seqVars, agentVars, lock, op, local, tret, evictions, raised, calls, own_put>>

\* cache.py:80  lru_key = min(cache.items(), ...)[0]   (ValueError on an empty dict)
EvictMin(t) ==
    /\ pc[t] = "evict_min"
    /\ IF DOMAIN CacheOf(op[t].map) = {}
       THEN Raise(t)
       ELSE /\ local' = [local EXCEPT ![t].lru = LruKey(CacheOf(op[t].map))]
            /\ Goto(t, "evict_del")
            /\ UNCHANGED <<lock, tret, raised>>
    /\ UNCHANGED <<cacheVars, seqVars, agentVars, op, evictions, calls, own_put>>

\* cache.py:81  del cache[lru_key]   (KeyError when the key is gone)
EvictDel(t) ==
    /\ pc[t] = "evict_del"
    /\ IF local[t].lru \notin DOMAIN CacheOf(op[t].map)
       THEN Raise(t) /\ UNCHANGED <<context_cache, memory_cache, evictions, own_put>>
       ELSE /\ SetCache(op[t].map, Remove(CacheOf(op[t].map), local[t].lru))
            /\ evictions' = [evictions EXCEPT ![t] = @ + 1]
            /\ own_put' = [u \in Threads |-> NoPut]
            /\ Goto(t, "put_stamp")
            /\ UNCHANGED <<lock, tret, raised, local>>
    /\ UNCHANGED <<max_size, enabled, access_counter, seqVars, agentVars, op, calls>>

\* cache.py:126  self._access_counter += 1
PutStamp(t) ==
    /\ pc[t] = "put_stamp"
    /\ access_counter' = access_counter + 1
    /\ Goto(t, "put_store")
    /\ UNCHANGED <<max_size, enabled, context_cache, memory_cache, seqVars, agentVars,
                   lock, op, local, tret, evictions, raised, calls, own_put>>

\* cache.py:127  cache[key] = (context, self._access_counter), then return
PutStore(t) ==
    /\ pc[t] = "put_store"
    /\ SetCache(op[t].map, Store(CacheOf(op[t].map), MakeKey(op[t].args),
                                 op[t].value, access_counter))
    /\ own_put' = [u \in Threads |->
                     IF u = t THEN [map |-> op[t].map, args |-> op[t].args, value |-> op[t].value]
                     ELSE IF own_put[u].map = op[t].map
                             /\ own_put[u].args = op[t].args
                          THEN NoPut ELSE own_put[u]]
    /\ Release(t, None, 0)
    /\ UNCHANGED <<max_size, enabled, access_counter, seqVars, agentVars, op, evictions,
                   raised, calls>>

\* cache.py:99 / 148  if key in cache   (a miss falls through to `return None`)
GetCheck(t) ==
    /\ pc[t] = "get_check"
    /\ IF MakeKey(op[t].args) \in DOMAIN CacheOf(op[t].map)
       THEN Goto(t, "get_read") /\ UNCHANGED <<lock, tret, local>>
       ELSE Release(t, None, 0)
    /\ UNCHANGED <<cacheVars, seqVars, agentVars, op, evictions, raised, calls, own_put>>

\* cache.py:100  value, _ = cache[key]   (KeyError when the key is gone)
GetRead(t) ==
    /\ pc[t] = "get_read"
    /\ IF MakeKey(op[t].args) \notin DOMAIN CacheOf(op[t].map)
       THEN Raise(t)
       ELSE /\ local' = [local EXCEPT ![t].value = CacheOf(op[t].map)[MakeKey(op[t].args)].value]
            /\ Goto(t, "get_stamp")
            /\ UNCHANGED <<lock, tret, raised>>
    /\ UNCHANGED <<cacheVars, seqVars, agentVars, op, evictions, calls, own_put>>

\* cache.py:101  self._access_counter += 1
GetStamp(t) ==
    /\ pc[t] = "get_stamp"
    /\ access_counter' = access_counter + 1
    /\ Goto(t, "get_store")
    /\ UNCHANGED <<max_size, enabled, context_cache, memory_cache, seqVars, agentVars,
                   lock, op, local, tret, evictions, raised, calls, own_put>>

\* cache.py:102-103  cache[key] = (value, self._access_counter); return value
GetStore(t) ==
    /\ pc[t] = "get_store"
    /\ SetCache(op[t].map, Store(CacheOf(op[t].map), MakeKey(op[t].args),
                                 local[t].value, access_counter))
    /\ Release(t, local[t].value, 0)
    /\ UNCHANGED <<max_size, enabled, access_counter, seqVars, agentVars, op, evictions,
                   raised, calls, own_put>>

\* cache.py:211  count = len(self._context_cache) + len(self._memory_cache)
InvCount(t) ==
    /\ pc[t] = "inv_count"
    /\ local' = [local EXCEPT ![t].count = TotalEntries]
    /\ Goto(t, "inv_clear")
    /\ UNCHANGED <<cacheVars, seqVars, agentVars, lock, op, tret, evictions, raised, calls, own_put>>

\* cache.py:212-215  both maps cleared; return count
InvClear(t) ==
    /\ pc[t] = "inv_clear"
    /\ context_cache' = InvalidatedContext(op[t].args[1])
    /\ memory_cache' = InvalidatedMemory(op[t].args[1])
    /\ own_put' = [u \in Threads |-> NoPut]
    /\ Release(t, None, local[t].count)
    /\ UNCHANGED <<max_size, enabled, access_counter, seqVars, agentVars, op, evictions,
                   raised, calls>>

\* cache.py:236-243  get_stats() under the lock
Stats(t) ==
    /\ pc[t] = "stats"
    /\ Release(t, None, TotalEntries)
    /\ UNCHANGED <<cacheVars, seqVars, agentVars, op, evictions, raised, calls, own_put>>

(***************************************************************************)
(* Real arithmetic of the scheduler in fixed point: a real x is the        *)
(* integer nearest to x * Scale.  Products and quotients are formed        *)
(* piecewise so that every intermediate value stays inside 32 bits; the    *)
(* results agree with the float results to about 1 part in 1000.           *)
(***************************************************************************)
Scale == 10000
One == Scale

Abs(x) == IF x < 0 THEN 0 - x ELSE x
Max(a, b) == IF a >= b THEN a ELSE b
Min(a, b) == IF a <= b THEN a ELSE b

\* a * b / Scale, rounded
MulFix(a, b) ==
    LET ah == a \div Scale
        al == a % Scale
        bh == b \div Scale
        bl == b % Scale
    IN ah * b + al * bh + (al * bl + Scale \div 2) \div Scale

\* a * Scale / b for b > 0, rounded, by long division one decimal digit at a time
RECURSIVE DivDigits(_, _, _, _)
DivDigits(q, r, b, n) ==
    IF n = 0 THEN (IF 2 * r >= b THEN q + 1 ELSE q)
    ELSE DivDigits(q * 10 + (r * 10) \div b, (r * 10) % b, b, n - 1)
DivFix(a, b) == DivDigits(a \div b, a % b, b, 4)

Ln2 == 6931         \* ln 2

\* sum of x^n / n! for n >= k, given term = x^k / k!
RECURSIVE ExpSeries(_, _, _)
ExpSeries(x, term, k) ==
    IF term = 0 \/ k > 12 THEN 0
    ELSE term + ExpSeries(x, (MulFix(term, x) + (k + 1) \div 2) \div (k + 1), k + 1)

RECURSIVE Halve(_, _)
Halve(x, n) == IF n = 0 THEN x ELSE Halve(x \div 2, n - 1)
RECURSIVE Double(_, _)
Double(x, n) == IF n = 0 THEN x ELSE Double(x * 2, n - 1)

\* math.exp(x): x = k ln 2 + r with 0 <= r < ln 2, exp(x) = 2^k exp(r)
Exp(x) ==
    LET k == x \div Ln2
        r == x % Ln2
        e == ExpSeries(r, One, 0)
    IN IF k >= 0 THEN Double(e, k) ELSE Halve(e, 0 - k)

\* sum of z^(2j+1) / (2j+1) for odd powers from n on, given zn = z^n
RECURSIVE AtanhSeries(_, _, _)
AtanhSeries(z2, zn, n) ==
    IF zn = 0 \/ n > 15 THEN 0
    ELSE (zn + n \div 2) \div n + AtanhSeries(z2, MulFix(zn, z2), n + 2)

\* math.log(x) for x > 0: x = m 2^k with 1 <= m < 2, ln m = 2 atanh((m-1)/(m+1))
RECURSIVE LnNorm(_, _)
LnNorm(x, k) ==
    IF x >= 2 * One THEN LnNorm(x \div 2, k + 1)
    ELSE IF x < One THEN LnNorm(x * 2, k - 1)
    ELSE LET z == DivFix(x - One, x + One)
         IN k * Ln2 + 2 * AtanhSeries(MulFix(z, z), z, 1)
Ln(x) == LnNorm(x, 0)

\* a ** b for a > 0
Pow(a, b) == Exp(MulFix(b, Ln(a)))

(***************************************************************************)
(* FSRS (memory/fsrs.py)                                                   *)
(***************************************************************************)
\* FSRS.p, the 21 parameters
p == << 2120, 12931, 23065, 82956, 64133, 8334, 30194, 10, 18722, 1666, 7960,
        14835, 614, 2629, 16483, 6014, 18729, 5425, 912, 658, 1542 >>
\* self.p[i], zero based
P(i) == p[i + 1]

RatingAgain == 1
RatingHard == 2
RatingGood == 3
RatingEasy == 4
Ratings == {RatingAgain, RatingHard, RatingGood, RatingEasy}

Null == -1          \* Python None where a number or a datetime is expected

\* storage.database.NodeState
NodeState(stability, difficulty, last_review, reps, state) ==
    [stability |-> stability, difficulty |-> difficulty, last_review |-> last_review,
     reps |-> reps, state |-> state]

Clamp(x, lo, hi) == Min(Max(x, lo), hi)

\* FSRS._calculate_initial_difficulty(rating)
InitialDifficultyUnclamped(rating) == P(4) - Exp(P(5) * (rating - 1)) + One
InitialDifficulty(rating) ==
    Clamp(P(4) - Exp(P(5) * (rating - 1)) + One, One, 10 * One)

\* SimulationTime (utils/time_utils.py); a datetime is a whole number of hours (UTC)
SimDatetime(dt) == [datetime_value |-> dt, day |-> Null, hour |-> Null]
SimRound(day, hour) == [datetime_value |-> Null, day |-> day, hour |-> hour]
IsDatetimeMode(t) == t.datetime_value # Null
IsRoundMode(t) == t.day # Null
ToDatetime(t) == t.datetime_value

\* an argument that may be left out: Nothing for None, Some(v) for a value
Nothing == <<>>
Some(v) == <<v>>
NoTime == [datetime_value |-> Null, day |-> Null, hour |-> Null]

\* SimulationTime.__init__(datetime_value, day, hour): the exception it raises
\* and the object it leaves
SimulationTimeBothAllowed(datetime_value, day, hour) ==
    IF datetime_value = Nothing /\ (day = Nothing \/ hour = Nothing)
    THEN [exc |-> "ValueError", value |-> NoTime]
    ELSE IF datetime_value # Nothing
    THEN [exc |-> None, value |-> SimDatetime(datetime_value[1])]
    ELSE IF day[1] < 1
    THEN [exc |-> "ValueError", value |-> NoTime]
    ELSE IF hour[1] < 0 \/ hour[1] > 23
    THEN [exc |-> "ValueError", value |-> NoTime]
    ELSE [exc |-> None, value |-> SimRound(day[1], hour[1])]
SimulationTimeInit(datetime_value, day, hour) ==
    IF datetime_value # Nothing /\ (day # Nothing \/ hour # Nothing)
    THEN [exc |-> "ValueError", value |-> NoTime]
    ELSE IF datetime_value = Nothing /\ (day = Nothing \/ hour = Nothing)
    THEN [exc |-> "ValueError", value |-> NoTime]
    ELSE IF datetime_value # Nothing
    THEN [exc |-> None, value |-> SimDatetime(datetime_value[1])]
    ELSE IF day[1] < 1
    THEN [exc |-> "ValueError", value |-> NoTime]
    ELSE IF hour[1] < 0 \/ hour[1] > 23
    THEN [exc |-> "ValueError", value |-> NoTime]
    ELSE [exc |-> None, value |-> SimRound(day[1], hour[1])]

HoursPerDay == 24
\* (a - b).total_seconds() / 86400
DaysBetween(a, b) == DivFix((a - b) * One, HoursPerDay * One)

\* fsrs.py:142-166  elapsed_days
ElapsedDays(current_state, now) ==
    LET now_dt == ToDatetime(now)
        raw == IF current_state.last_review = Null THEN 0
               ELSE IF IsRoundMode(now)
                    THEN (IF now_dt # Null THEN DaysBetween(now_dt, current_state.last_review)
                          ELSE 0)
                    ELSE DaysBetween(now_dt, current_state.last_review)
    IN IF raw < 0 THEN 0 ELSE raw

\* fsrs.py:168-174  retrievability
Retrievability(current_state, now) ==
    IF current_state.last_review # Null
    THEN LET factor == Pow((9 * One) \div 10, DivFix(0 - One, P(20))) - One
         IN Pow(One + DivFix(MulFix(factor, ElapsedDays(current_state, now)),
                             current_state.stability),
                0 - P(20))
    ELSE One

\* fsrs.py:176-185  next_d
NextDifficulty(d, rating) ==
    LET d_0_4 == InitialDifficulty(RatingEasy)
        delta_d == (0 - P(6)) * (rating - 3)
        d_prime == d + DivFix(MulFix(delta_d, 10 * One - d), 9 * One)
    IN Clamp(MulFix(P(7), d_0_4) + MulFix(One - P(7), d_prime), One, 10 * One)

\* fsrs.py:191-218  next_s before the floor
NextStability(s, next_d, retrievability, rating, is_same_day) ==
    IF rating = RatingAgain
    THEN MulFix(MulFix(MulFix(P(11), Pow(next_d, 0 - P(12))),
                       Pow(s + One, P(13)) - One),
                Exp(MulFix(One - retrievability, P(14))))
    ELSE IF is_same_day
    THEN MulFix(MulFix(s, Exp(MulFix(P(17), (rating - 3) * One + P(18)))),
                Pow(s, 0 - P(19)))
    ELSE LET hard_penalty == IF rating = RatingHard THEN P(15) ELSE One
             easy_bonus == IF rating = RatingEasy THEN P(16) ELSE One
             gain == MulFix(MulFix(MulFix(MulFix(
                         MulFix(Exp(P(8)), 11 * One - next_d),
                         Pow(s, 0 - P(9))),
                         Exp(MulFix(One - retrievability, P(10))) - One),
                         hard_penalty),
                         easy_bonus)
         IN MulFix(s, One + gain)

\* fsrs.py:191-218  state
NextState(rating) == IF rating = RatingAgain THEN 1 ELSE 2

\* FSRS.calculate_next(current_state, rating, now), now a SimulationTime
CalculateNext(current_state, rating, now) ==
    LET now_dt == ToDatetime(now) IN
    IF current_state.state = 0
    THEN NodeState(P(rating - 1), InitialDifficulty(rating), now_dt, 1, 1)
    ELSE LET s == current_state.stability
             d == current_state.difficulty
             elapsed_days == ElapsedDays(current_state, now)
             retrievability == Retrievability(current_state, now)
             next_d == NextDifficulty(d, rating)
             is_same_day == elapsed_days < One
             next_s == NextStability(s, next_d, retrievability, rating, is_same_day)
         IN NodeState(Max(next_s, One \div 10), next_d, now_dt,
                      current_state.reps + 1, NextState(rating))

(***************************************************************************)
(* Text: a Python str is the sequence of its characters                    *)
(***************************************************************************)
NullStr == <<"<None>">>     \* Python None where a str is expected
Uppercase == <<"A", "B", "C", "D", "E", "F", "G", "H", "I", "J", "K", "L", "M", "N", "O", "P", "Q", "R", "S", "T", "U", "V", "W", "X", "Y", "Z">>
Lowercase == <<"a", "b", "c", "d", "e", "f", "g", "h", "i", "j", "k", "l", "m", "n", "o", "p", "q", "r", "s", "t", "u", "v", "w", "x", "y", "z">>
Digits == {"0", "1", "2", "3", "4", "5", "6", "7", "8", "9"}
Whitespace == {" "}

\* str.lower(), one character
LowerOf == [c \in {Uppercase[i] : i \in 1..26} |->
              Lowercase[CHOOSE i \in 1..26 : Uppercase[i] = c]]
LowerChar(c) == IF c \in DOMAIN LowerOf THEN LowerOf[c] ELSE c
\* str.lower()
Lower(text) == [i \in 1..Len(text) |-> LowerChar(text[i])]

RECURSIVE LStrip(_)
LStrip(text) ==
    IF text # <<>> /\ Head(text) \in Whitespace THEN LStrip(Tail(text)) ELSE text
RECURSIVE RStrip(_)
RStrip(text) ==
    IF text # <<>> /\ text[Len(text)] \in Whitespace
    THEN RStrip(SubSeq(text, 1, Len(text) - 1)) ELSE text
\* str.strip()
Strip(text) == RStrip(LStrip(text))

\* the characters re.sub(r"[^a-z0-9\s]", "", clean) keeps
KeptChars == {Lowercase[i] : i \in 1..26} \cup Digits \cup Whitespace
IsKept(c) == c \in KeptChars

(***************************************************************************)
(* GhostAgent (core/agent.py): normalisation and the semantic gatekeeper   *)
(***************************************************************************)
SelfToken == <<"I">>

\* GhostAgent._normalize(text) of the agent called `name`
Normalize(name, text) ==
    IF text = NullStr \/ text = <<>> THEN NullStr
    ELSE LET clean == SelectSeq(Lower(Strip(text)), IsKept)
         IN IF clean = <<"i">> THEN SelfToken
            ELSE IF clean = Lower(name) THEN SelfToken
            ELSE IF clean \in { <<"m", "e">>, <<"m", "y", "s", "e", "l", "f">> } THEN SelfToken
            ELSE clean

\* `not s` for an Optional[str]
FalsyNoneOnly(text) == text = NullStr
Falsy(text) == text = NullStr \/ text = <<>>

stopwords == {
    <<"i", "t">>, <<"i", "s">>, <<"t", "h", "e">>, <<"a">>,
    <<"a", "n">>, <<"t", "h", "i", "s">>, <<"t", "h", "a", "t">> }
banned_relations == {
    <<"n", "o", "u", "n">>, <<"v", "e", "r", "b">>, <<"a", "d", "j", "e", "c", "t", "i", "v", "e">>, <<"a", "d", "v", "e", "r", "b">>,
    <<"p", "r", "e", "p", "o", "s", "i", "t", "i", "o", "n">>, <<"c", "o", "n", "j", "u", "n", "c", "t", "i", "o", "n">>, <<"p", "r", "o", "n", "o", "u", "n">>, <<"p", "h", "r", "a", "s", "e">>,
    <<"c", "l", "a", "u", "s", "e">>, <<"s", "e", "n", "t", "e", "n", "c", "e">>, <<"s", "t", "a", "t", "e", "m", "e", "n", "t">>, <<"t", "e", "x", "t">>,
    <<"t", "o", "p", "i", "c">>, <<"c", "o", "n", "c", "e", "p", "t">>, <<"w", "o", "r", "d">>, <<"t", "e", "r", "m">>,
    <<"r", "a", "t", "i", "n", "g">>, <<"e", "v", "a", "l", "u", "a", "t", "i", "o", "n">>, <<"o", "p", "i", "n", "i", "o", "n">> }
banned_nodes == {
    <<"t", "e", "x", "t">>, <<"e", "n", "t", "i", "t", "y">>, <<"a", "u", "t", "h", "o", "r">>,
    <<"n", "o", "n", "e">>, <<"u", "n", "k", "n", "o", "w", "n">>, <<"w", "i", "k", "i", "p", "e", "d", "i", "a">>,
    <<"g", "e", "n", "e", "r", "a", "l", " ", "k", "n", "o", "w", "l", "e", "d", "g", "e">>, <<"s", "o", "u", "r", "c", "e">>, <<"t", "a", "r", "g", "e", "t">>,
    <<"a", "d", "j", "e", "c", "t", "i", "v", "e">>, <<"n", "o", "u", "n">> }

\* GhostAgent._is_valid_triple(src, rel, tgt)
IsValidTripleSourceOnly(src, rel, tgt) ==
    /\ ~(Falsy(src) \/ Falsy(rel) \/ Falsy(tgt))
    /\ ~(Len(src) < 2 /\ src # SelfToken)
    /\ src \notin stopwords
    /\ src \notin banned_nodes
    /\ rel \notin banned_relations
IsValidTriple(src, rel, tgt) ==
    /\ ~(Falsy(src) \/ Falsy(rel) \/ Falsy(tgt))
    /\ ~(Len(src) < 2 /\ src # SelfToken)
    /\ ~(Len(tgt) < 2 /\ tgt # SelfToken)
    /\ ~(src \in stopwords \/ tgt \in stopwords)
    /\ ~(src \in banned_nodes \/ tgt \in banned_nodes)
    /\ rel \notin banned_relations

(***************************************************************************)
(* KnowledgeDB (storage/database.py): nodes and edges                      *)
(***************************************************************************)
WallClock == -2     \* a created_at the database fills in from its own clock
NoNodeState == NodeState(0, 0, Null, -1, -1)    \* fsrs_state=None

NoRows == [k \in {} |-> 0]

\* the timestamp handling of upsert_node / add_relation (database.py:243-256, 342-355)
TsOf(timestamp) == IF ToDatetime(timestamp) = Null THEN WallClock ELSE ToDatetime(timestamp)
SimDayOf(timestamp) == IF IsRoundMode(timestamp) THEN timestamp.day ELSE Null
SimHourOf(timestamp) == IF IsRoundMode(timestamp) THEN timestamp.hour ELSE Null

\* KnowledgeDB.upsert_node(owner_id, node_id, fsrs_state, timestamp)
UpsertNodeResets(ns, owner_id, node_id, fsrs_state, timestamp) ==
    LET key == <<owner_id, node_id>>
        st == IF fsrs_state # NoNodeState THEN fsrs_state ELSE NodeState(0, 0, Null, 0, 0)
    IN [k \in DOMAIN ns \cup {key} |->
          IF k = key
          THEN [stability |-> st.stability, difficulty |-> st.difficulty,
                last_review |-> st.last_review, reps |-> st.reps, state |-> st.state,
                created_at |-> IF key \in DOMAIN ns THEN ns[key].created_at
                               ELSE TsOf(timestamp),
                sim_day |-> SimDayOf(timestamp), sim_hour |-> SimHourOf(timestamp)]
          ELSE ns[k]]
UpsertNode(ns, owner_id, node_id, fsrs_state, timestamp) ==
    LET key == <<owner_id, node_id>> IN
    IF key \in DOMAIN ns
    THEN IF fsrs_state # NoNodeState
         THEN [ns EXCEPT ![key] =
                  [@ EXCEPT !.stability = fsrs_state.stability,
                            !.difficulty = fsrs_state.difficulty,
                            !.last_review = fsrs_state.last_review,
                            !.reps = fsrs_state.reps,
                            !.state = fsrs_state.state,
                            !.sim_day = SimDayOf(timestamp),
                            !.sim_hour = SimHourOf(timestamp)]]
         ELSE ns
    ELSE LET st == IF fsrs_state # NoNodeState THEN fsrs_state
                   ELSE NodeState(0, 0, Null, 0, 0)
         IN [k \in DOMAIN ns \cup {key} |->
               IF k = key
               THEN [stability |-> st.stability, difficulty |-> st.difficulty,
                     last_review |-> st.last_review, reps |-> st.reps, state |-> st.state,
                     created_at |-> TsOf(timestamp),
                     sim_day |-> SimDayOf(timestamp), sim_hour |-> SimHourOf(timestamp)]
               ELSE ns[k]]

\* the sentiment check of add_relation (database.py:335-339); None has become 0.0
SentimentInRange(sentiment) == 0 - One <= sentiment /\ sentiment <= One

\* the edge written by add_relation (database.py:364-390)
UpsertEdge(es, owner_id, source, relation, target, sentiment, timestamp) ==
    LET key == <<owner_id, source, target, relation>>
        row == [sentiment |-> sentiment, created_at |-> TsOf(timestamp),
                sim_day |-> SimDayOf(timestamp), sim_hour |-> SimHourOf(timestamp),
                \* a new row goes to the end of the table, an updated one stays in place
                rowid |-> IF key \in DOMAIN es THEN es[key].rowid
                          ELSE Cardinality(DOMAIN es) + 1]
    IN [k \in DOMAIN es \cup {key} |-> IF k = key THEN row ELSE es[k]]

\* KnowledgeDB.add_relation(owner_id, source, relation, target, sentiment, timestamp):
\* the outcomes [nodes, edges, exc] it can end with.  Updating an existing edge
\* under a Round clock assigns created_at = None to a column declared NOT NULL:
\* the backend either refuses the update (DatabaseError) or stores its own clock.
AddRelationEdgeOnly(ns, es, owner_id, source, relation, target, sentiment_arg, timestamp) ==
    LET sentiment == IF sentiment_arg = Null THEN 0 ELSE sentiment_arg
        es2 == UpsertEdge(es, owner_id, source, relation, target, sentiment, timestamp)
        key == <<owner_id, source, target, relation>>
    IN IF Falsy(owner_id) \/ Falsy(source) \/ Falsy(relation) \/ Falsy(target)
       THEN { [nodes |-> ns, edges |-> es, exc |-> "ValidationError"] }
       ELSE IF ~SentimentInRange(sentiment)
       THEN { [nodes |-> ns, edges |-> es, exc |-> "ValidationError"] }
       ELSE IF key \in DOMAIN es /\ ToDatetime(timestamp) = Null
       THEN { [nodes |-> ns, edges |-> es2, exc |-> None],
              [nodes |-> ns, edges |-> es, exc |-> "DatabaseError"] }
       ELSE { [nodes |-> ns, edges |-> es2, exc |-> None] }
AddRelationNodesFirst(ns, es, owner_id, source, relation, target, sentiment_arg, timestamp) ==
    LET sentiment == IF sentiment_arg = Null THEN 0 ELSE sentiment_arg
        ns2 == UpsertNode(UpsertNode(ns, owner_id, source, NoNodeState, timestamp),
                          owner_id, target, NoNodeState, timestamp)
        es2 == UpsertEdge(es, owner_id, source, relation, target, sentiment, timestamp)
        key == <<owner_id, source, target, relation>>
    IN IF Falsy(owner_id) \/ Falsy(source) \/ Falsy(relation) \/ Falsy(target)
       THEN { [nodes |-> ns, edges |-> es, exc |-> "ValidationError"] }
       ELSE IF ~SentimentInRange(sentiment)
       THEN { [nodes |-> ns2, edges |-> es, exc |-> "ValidationError"] }
       ELSE IF key \in DOMAIN es /\ ToDatetime(timestamp) = Null
       THEN { [nodes |-> ns2, edges |-> es2, exc |-> None],
              [nodes |-> ns2, edges |-> es, exc |-> "DatabaseError"] }
       ELSE { [nodes |-> ns2, edges |-> es2, exc |-> None] }
AddRelation(ns, es, owner_id, source, relation, target, sentiment_arg, timestamp) ==
    LET sentiment == IF sentiment_arg = Null THEN 0 ELSE sentiment_arg
        ns2 == UpsertNode(UpsertNode(ns, owner_id, source, NoNodeState, timestamp),
                          owner_id, target, NoNodeState, timestamp)
        es2 == UpsertEdge(es, owner_id, source, relation, target, sentiment, timestamp)
        key == <<owner_id, source, target, relation>>
    IN IF Falsy(owner_id) \/ Falsy(source) \/ Falsy(relation) \/ Falsy(target)
       THEN { [nodes |-> ns, edges |-> es, exc |-> "ValidationError"] }
       ELSE IF ~SentimentInRange(sentiment)
       THEN { [nodes |-> ns, edges |-> es, exc |-> "ValidationError"] }
       ELSE IF key \in DOMAIN es /\ ToDatetime(timestamp) = Null
       THEN { [nodes |-> ns2, edges |-> es2, exc |-> None],
              [nodes |-> ns2, edges |-> es, exc |-> "DatabaseError"] }
       ELSE { [nodes |-> ns2, edges |-> es2, exc |-> None] }

(***************************************************************************)
(* KnowledgeDB (storage/database.py): the read path                        *)
(***************************************************************************)
\* target LIKE '%topic%' for a topic of lower-case letters and digits
Contains(text, sub) ==
    \E i \in 0..(Len(text) - Len(sub)) : SubSeq(text, i + 1, i + Len(sub)) = sub

\* the place of an edge in its table
RowId(es, key) == es[key].rowid

\* how a query that matches several rows may return them where SQL leaves the
\* order open: by ascending or by descending row id
RowOrders == {"asc", "desc"}
\* A Round clock has no datetime: created_at is then the database's own clock
\* and the time of a query the host's.  How the host's clock stands to the
\* simulation's calendar, and how long ago the rows were written by it, is
\* whatever the host's clock makes it.
ClockOrders == {"host later", "host much later", "host earlier", "host same hour"}
FarFuture == 1000000

\* a created_at on the axis of the simulation's calendar
OnAxis(t, clocks) ==
    IF t # WallClock THEN t
    ELSE IF clocks \in {"host later", "host much later"} THEN FarFuture
    ELSE IF clocks = "host earlier" THEN 0 - FarFuture
    ELSE 0

\* datetime.now() of a query on that axis: at or after every created_at the
\* host's clock has given
HostNow(clocks) ==
    IF clocks = "host much later" THEN 2 * FarFuture ELSE OnAxis(WallClock, clocks)

\* the rows of `keys` one after the other, the highest score first
RECURSIVE InOrder(_, _)
InOrder(keys, score) ==
    IF keys = {} THEN <<>>
    ELSE LET first == CHOOSE k \in keys : \A j \in keys \ {k} : score[k] > score[j]
         IN <<first>> \o InOrder(keys \ {first}, score)

MaxRows == 100    \* more than any table of the model holds
\* .limit(n) of a query, [:n] of a list
LimitNone(rows, n) == rows
Limit(rows, n) == SubSeq(rows, 1, Min(n, Len(rows)))

\* ts - datetime.timedelta(minutes=60), in hours
TimeThresholdDay(ts) == ts - HoursPerDay
TimeThreshold(ts) == ts - 1

\* KnowledgeDB.get_agent_stance(owner_id, topic, current_time): the edge keys
\* of the rows it returns
GetAgentStance(es, owner_id, topic, now, clocks, order) ==
    LET ts == IF ToDatetime(now) = Null THEN HostNow(clocks) ELSE ToDatetime(now)
        time_threshold == TimeThreshold(ts)
        created(k) == OnAxis(es[k].created_at, clocks)
        matching == { k \in DOMAIN es :
                        /\ k[1] = owner_id
                        /\ (k[2] = SelfToken \/ k[2] = owner_id)
                        /\ (Contains(k[3], topic) \/ created(k) >= time_threshold) }
        \* ORDER BY created_at DESC, rows of one created_at in row order
        score == [k \in matching |->
                    created(k) * MaxRows
                    + (IF order = "asc" THEN MaxRows - RowId(es, k) ELSE RowId(es, k))]
    IN Limit(InOrder(matching, score), 8)

\* KnowledgeDB.get_world_knowledge(owner_id, topic, limit)
GetWorldKnowledgeAnyOwner(es, owner_id, topic, limit, order) ==
    LET matching == { k \in DOMAIN es :
                        /\ k[2] # SelfToken
                        /\ Contains(k[3], topic) }
        score == [k \in matching |->
                    IF order = "asc" THEN MaxRows - RowId(es, k) ELSE RowId(es, k)]
    IN Limit(InOrder(matching, score), limit)
GetWorldKnowledge(es, owner_id, topic, limit, order) ==
    LET matching == { k \in DOMAIN es :
                        /\ k[1] = owner_id
                        /\ k[2] # SelfToken
                        /\ Contains(k[3], topic) }
        score == [k \in matching |->
                    IF order = "asc" THEN MaxRows - RowId(es, k) ELSE RowId(es, k)]
    IN Limit(InOrder(matching, score), limit)

(***************************************************************************)
(* GhostAgent (core/agent.py): the read path                               *)
(***************************************************************************)
\* GhostAgent._get_retrievability(stability, last_review)
GetRetrievability(now, stability, last_review) ==
    IF last_review = Null \/ stability = 0 THEN 0
    ELSE LET days == IF IsDatetimeMode(now)
                     THEN (ToDatetime(now) - last_review) \div HoursPerDay
                     ELSE 0
             elapsed_days == IF days < 0 THEN 0 ELSE days
         IN DivFix(One, One + DivFix(elapsed_days * One, 9 * stability))

\* GhostAgent._get_sentiment_qualifier(sentiment)
SentimentQualifierInclusive(sentiment) ==
    IF sentiment = Null \/ Abs(sentiment) < 1000 THEN <<>>
    ELSE IF sentiment >= 6000 THEN <<" ", "(", "v", "e", "r", "y", " ", "p", "o", "s", "i", "t", "i", "v", "e", "l", "y", ")">>
    ELSE IF sentiment >= 3000 THEN <<" ", "(", "p", "o", "s", "i", "t", "i", "v", "e", "l", "y", ")">>
    ELSE IF sentiment >= 1000 THEN <<" ", "(", "s", "o", "m", "e", "w", "h", "a", "t", " ", "p", "o", "s", "i", "t", "i", "v", "e", "l", "y", ")">>
    ELSE IF sentiment <= 0 - 6000 THEN <<" ", "(", "v", "e", "r", "y", " ", "n", "e", "g", "a", "t", "i", "v", "e", "l", "y", ")">>
    ELSE IF sentiment <= 0 - 3000 THEN <<" ", "(", "n", "e", "g", "a", "t", "i", "v", "e", "l", "y", ")">>
    ELSE IF sentiment <= 0 - 1000 THEN <<" ", "(", "s", "o", "m", "e", "w", "h", "a", "t", " ", "n", "e", "g", "a", "t", "i", "v", "e", "l", "y", ")">>
    ELSE <<>>
SentimentQualifier(sentiment) ==
    IF sentiment = Null \/ Abs(sentiment) < 1000 THEN <<>>
    ELSE IF sentiment > 6000 THEN <<" ", "(", "v", "e", "r", "y", " ", "p", "o", "s", "i", "t", "i", "v", "e", "l", "y", ")">>
    ELSE IF sentiment > 3000 THEN <<" ", "(", "p", "o", "s", "i", "t", "i", "v", "e", "l", "y", ")">>
    ELSE IF sentiment > 1000 THEN <<" ", "(", "s", "o", "m", "e", "w", "h", "a", "t", " ", "p", "o", "s", "i", "t", "i", "v", "e", "l", "y", ")">>
    ELSE IF sentiment < 0 - 6000 THEN <<" ", "(", "v", "e", "r", "y", " ", "n", "e", "g", "a", "t", "i", "v", "e", "l", "y", ")">>
    ELSE IF sentiment < 0 - 3000 THEN <<" ", "(", "n", "e", "g", "a", "t", "i", "v", "e", "l", "y", ")">>
    ELSE IF sentiment < 0 - 1000 THEN <<" ", "(", "s", "o", "m", "e", "w", "h", "a", "t", " ", "n", "e", "g", "a", "t", "i", "v", "e", "l", "y", ")">>
    ELSE <<>>

\* the relations get_memory_view files under WHAT OTHERS THINK
others_relations == {
    <<"s", "a", "i", "d">>,
    <<"t", "h", "i", "n", "k", "s">>,
    <<"b", "e", "l", "i", "e", "v", "e", "s">>,
    <<"w", "a", "n", "t", "s">>,
    <<"s", "u", "p", "p", "o", "r", "t", "s">>,
    <<"o", "p", "p", "o", "s", "e", "s">>,
    <<"l", "i", "k", "e", "s">>,
    <<"d", "i", "s", "l", "i", "k", "e", "s">>,
    <<"a", "d", "v", "o", "c", "a", "t", "e", "s">>,
    <<"c", "r", "i", "t", "i", "c", "i", "z", "e", "s">>,
    <<"s", "t", "r", "o", "n", "g", "l", "y", " ", "s", "u", "p", "p", "o", "r", "t", "s">>,
    <<"s", "t", "r", "o", "n", "g", "l", "y", " ", "o", "p", "p", "o", "s", "e", "s">> }

Space == <<" ">>
\* f"I {row['relation']} {row['target']}{sentiment_qualifier}"
BeliefStr(es, k) ==
    <<"I">> \o Space \o k[4] \o Space \o k[3] \o SentimentQualifier(es[k].sentiment)
\* f"{src} {rel} {tgt}{sentiment_qualifier}"
FactStr(es, k) ==
    k[2] \o Space \o k[4] \o Space \o k[3]
    \o (IF es[k].sentiment # 0 THEN SentimentQualifier(es[k].sentiment) ELSE <<>>)

\* the keys of a dict filled in the order of `strs`: each string once, at its first place
RECURSIVE DictKeys(_)
DictKeys(strs) ==
    IF strs = <<>> THEN <<>>
    ELSE LET rest == DictKeys(SubSeq(strs, 1, Len(strs) - 1))
             last == strs[Len(strs)]
         IN IF \E i \in 1..Len(rest) : rest[i] = last THEN rest ELSE Append(rest, last)

(***************************************************************************)
(* GhostAgent (core/agent.py): the write path                              *)
(***************************************************************************)
AliceName == <<"A", "l", "i", "c", "e">>
Agents == {AliceName}

\* what the callers pass in
Sentiments == {Null, 8000, 15000}
Datetimes == {0, 24}
SimTimes == { SimDatetime(d) : d \in Datetimes } \cup { SimRound(1, 9) }
LearnRatings == {Null, RatingAgain}     \* rating left out (Good by default) or given
RawConcepts == { <<"U", "B", "I">>, <<>> }
RawSources == { <<"I">>, <<"B", "o", "b">> }
RawRelations == { <<"l", "i", "k", "e", "s">> }
RawTargets == { <<"U", "B", "I">>, <<"t", "h", "e">> }

AgentCall(name, owner, reviewed) == [op |-> name, owner |-> owner, reviews |-> reviewed]

\* no get_memory_view has run yet
NoView == [kind |-> "none", topic |-> NullStr, my_rows |-> <<>>, world_rows |-> <<>>,
           stance |-> <<>>, facts |-> <<>>, others |-> <<>>]

\* GhostAgent.__init__ of every agent, on one shared database
NoPureCall == [op |-> "none", args |-> <<>>, result |-> None]

\* no CognitiveLoop.absorb has run
NoAbsorb == [data |-> <<>>, index |-> 0, calls |-> <<>>, exc |-> None, state |-> "idle"]

\* extraction.py and cache.py before anything is imported or called: no model,
\* no global cache, both locks free, every caller outside the getters
Getters == {"get_gliner_model", "get_global_cache"}
Callers == {"c1", "c2", "c3"}
NoSingleton ==
    [HAS_FAST_MODE |-> "not imported",
     instance |-> [g \in Getters |-> Null],
     lock |-> [g \in Getters |-> None],
     constructed |-> [g \in Getters |-> 0],
     returned |-> [g \in Getters |-> {}],
     pc |-> [c \in Callers |-> "idle"],
     getter |-> [c \in Callers |-> None],
     gets |-> [c \in Callers |-> 0],
     raised |-> {}]

\* no update_memory is under way: every reviewer is outside the call
Reviewers == {"r1", "r2"}
NoRow == [found |-> FALSE, stability |-> 0, difficulty |-> 0, last_review |-> Null,
          reps |-> 0, state |-> 0, sim_day |-> Null, sim_hour |-> Null]
NoReviewers ==
    [pc |-> [r \in Reviewers |-> "idle"],
     rating |-> [r \in Reviewers |-> RatingGood],
     now |-> [r \in Reviewers |-> SimDatetime(0)],
     new_state |-> [r \in Reviewers |-> NoNodeState],
     existing_node |-> [r \in Reviewers |-> NoRow],
     calls |-> 0,
     raised |-> {},
     last_write |-> NoNodeState]

InitAgents(names) ==
    /\ pure_call = NoPureCall
    /\ singleton = NoSingleton
    /\ reviewers = NoReviewers
    /\ view = NoView
    /\ db_reads = 0
    /\ fed = 0
    /\ absorb = NoAbsorb
    /\ current_time = [a \in names |-> SimDatetime(0)]
    /\ nodes = [k \in { <<a, SelfToken>> : a \in names } |->
                  [stability |-> 0, difficulty |-> 0, last_review |-> Null, reps |-> 0,
                   state |-> 0, created_at |-> 0, sim_day |-> Null, sim_hour |-> Null]]
    /\ edges = NoRows
    /\ agent_call = AgentCall("init", <<>>, <<>>)
    /\ agent_exc = None
    /\ reviews_done = 0

InitAgentState == InitAgents(Agents)

\* no script: the callers of SpecAgent choose every call freely
InitAgent == InitAgentState /\ feed = <<>>

\* GhostAgent.set_time(new_time)
SetTime(name, new_time) ==
    /\ current_time' = [current_time EXCEPT ![name] = new_time]
    /\ agent_call' = AgentCall("set_time", name, <<>>)
    /\ agent_exc' = None
    /\ UNCHANGED <<nodes, edges, reviews_done, viewVars>>
    /\ UNCHANGED <<cacheVars, seqVars, thrVars, pureVars>>

\* agent.py:237-260  the state update_memory hands to the scheduler
CurrentState(ns, name, norm_name) ==
    LET key == <<name, norm_name>> IN
    IF key \in DOMAIN ns /\ ns[key].last_review # Null
    THEN NodeState(ns[key].stability, ns[key].difficulty, ns[key].last_review,
                   ns[key].reps, ns[key].state)
    ELSE NodeState(0, 0, Null, 0, 0)

\* the effect of GhostAgent.update_memory(concept_name, rating) on the nodes table
Reviewed(ns, name, concept_name, rating) ==
    LET norm_name == Normalize(name, concept_name) IN
    IF Falsy(norm_name) THEN ns
    ELSE UpsertNode(ns, name, norm_name,
                    CalculateNext(CurrentState(ns, name, norm_name), rating,
                                  current_time[name]),
                    current_time[name])

\* GhostAgent.update_memory(concept_name, rating)
UpdateMemory(name, concept_name, rating) ==
    LET norm_name == Normalize(name, concept_name) IN
    /\ reviews_done < MaxReviews
    /\ nodes' = Reviewed(nodes, name, concept_name, rating)
    /\ reviews_done' = IF Falsy(norm_name) THEN reviews_done ELSE reviews_done + 1
    /\ agent_call' = AgentCall("update_memory", name,
                               IF Falsy(norm_name) THEN <<>> ELSE << <<norm_name, rating>> >>)
    /\ agent_exc' = None
    /\ UNCHANGED <<current_time, edges, viewVars>>
    /\ UNCHANGED <<cacheVars, seqVars, thrVars, pureVars>>

\* GhostAgent.learn_triplet(source, relation, target, rating, sentiment): what
\* the call does to the agent and its store
LearnTripletEffectReviewFirst(name, source, relation, target, rating_arg, sentiment_arg) ==
    LET rating == IF rating_arg = Null THEN RatingGood ELSE rating_arg
        sentiment == IF sentiment_arg = Null THEN 0 ELSE sentiment_arg
        n_source == Normalize(name, source)
        n_target == Normalize(name, target)
        n_relation == Normalize(name, relation)
        ns1 == Reviewed(nodes, name, n_target, rating)
        ns2 == IF n_source # SelfToken THEN Reviewed(ns1, name, n_source, RatingGood) ELSE ns1
        reviewed == << <<n_target, rating>> >>
                    \o (IF n_source # SelfToken THEN << <<n_source, RatingGood>> >> ELSE <<>>)
        now == current_time[name]
    IN
    /\ IF ~IsValidTriple(n_source, n_relation, n_target)
       THEN /\ nodes' = Reviewed(nodes, name, n_target, rating)
            /\ UNCHANGED <<edges, reviews_done>>
            /\ agent_call' = AgentCall("learn_triplet", name, <<>>)
            /\ agent_exc' = None
       ELSE /\ reviews_done' = reviews_done + Len(reviewed)
            /\ agent_call' = AgentCall("learn_triplet", name, reviewed)
            /\ \E o \in AddRelation(ns2, edges, name, n_source, n_relation, n_target,
                                     sentiment, now) :
                    /\ nodes' = o.nodes
                    /\ edges' = o.edges
                    /\ agent_exc' = o.exc
    /\ UNCHANGED <<current_time, view, db_reads, feed>>
    /\ UNCHANGED <<cacheVars, seqVars, thrVars, pureVars>>
LearnTripletEffect(name, source, relation, target, rating_arg, sentiment_arg) ==
    LET rating == IF rating_arg = Null THEN RatingGood ELSE rating_arg
        sentiment == IF sentiment_arg = Null THEN 0 ELSE sentiment_arg
        n_source == Normalize(name, source)
        n_target == Normalize(name, target)
        n_relation == Normalize(name, relation)
        ns1 == Reviewed(nodes, name, n_target, rating)
        ns2 == IF n_source # SelfToken THEN Reviewed(ns1, name, n_source, RatingGood) ELSE ns1
        reviewed == << <<n_target, rating>> >>
                    \o (IF n_source # SelfToken THEN << <<n_source, RatingGood>> >> ELSE <<>>)
        now == current_time[name]
    IN
    /\ IF ~IsValidTriple(n_source, n_relation, n_target)
       THEN /\ UNCHANGED <<nodes, edges, reviews_done>>
            /\ agent_call' = AgentCall("learn_triplet", name, <<>>)
            /\ agent_exc' = None
       ELSE /\ reviews_done' = reviews_done + Len(reviewed)
            /\ agent_call' = AgentCall("learn_triplet", name, reviewed)
            /\ \E o \in AddRelation(ns2, edges, name, n_source, n_relation, n_target,
                                     sentiment, now) :
                    /\ nodes' = o.nodes
                    /\ edges' = o.edges
                    /\ agent_exc' = o.exc
    /\ UNCHANGED <<current_time, view, db_reads, feed>>
    /\ UNCHANGED <<cacheVars, seqVars, thrVars, pureVars>>

\* GhostAgent.learn_triplet(source, relation, target, rating, sentiment)
LearnTriplet(name, source, relation, target, rating_arg, sentiment_arg) ==
    /\ reviews_done + 2 <= MaxReviews
    /\ LearnTripletEffect(name, source, relation, target, rating_arg, sentiment_arg)
    /\ UNCHANGED <<fed, absorb>>

\* one call of the script `feed`: agent.learn_triplet(...), agent.update_memory(target, rating)
\* or, as the repository's own database test does, db.add_relation(owner, ...) directly
Fed(via, source, relation, target, rating, sentiment) ==
    [via |-> via, source |-> source, relation |-> relation, target |-> target,
     rating |-> rating, sentiment |-> sentiment]

FeedNext(name) ==
    /\ fed < Len(feed)
    /\ fed' = fed + 1
    /\ UNCHANGED absorb
    /\ LET f == feed[fed + 1] IN
       IF f.via = "learn_triplet"
       THEN LearnTripletEffect(name, f.source, f.relation, f.target, f.rating, f.sentiment)
       ELSE IF f.via = "update_memory"
       THEN /\ nodes' = Reviewed(nodes, name, f.target, f.rating)
            /\ reviews_done' = IF Falsy(Normalize(name, f.target)) THEN reviews_done
                                ELSE reviews_done + 1
            /\ agent_call' = AgentCall("update_memory", name,
                                       IF Falsy(Normalize(name, f.target)) THEN <<>>
                                       ELSE << <<Normalize(name, f.target), f.rating>> >>)
            /\ agent_exc' = None
            /\ UNCHANGED <<current_time, edges, view, db_reads, feed>>
            /\ UNCHANGED <<cacheVars, seqVars, thrVars, pureVars>>
       ELSE /\ \E o \in AddRelation(nodes, edges, name, f.source, f.relation, f.target,
                                     f.sentiment, current_time[name]) :
                    /\ nodes' = o.nodes
                    /\ edges' = o.edges
                    /\ agent_exc' = o.exc
            /\ agent_call' = AgentCall("add_relation", name, <<>>)
            /\ UNCHANGED <<current_time, reviews_done, view, db_reads, feed>>
            /\ UNCHANGED <<cacheVars, seqVars, thrVars, pureVars>>

IsOthersRow(k) == k[4] \in others_relations
IsFactRow(k) == k[4] \notin others_relations

\* GhostAgent.get_memory_view(topic)
AgentGetMemoryViewAsReview(name, topic) ==
    /\ agent_call' = AgentCall("get_memory_view", name, <<>>)
    /\ agent_exc' = None
    /\ view' = [NoView EXCEPT !.kind = "context", !.topic = topic]
    /\ db_reads' = 3
    /\ nodes' = Reviewed(nodes, name, topic, RatingGood)
    /\ UNCHANGED <<current_time, edges, reviews_done, feed, fed, absorb>>
    /\ UNCHANGED <<cacheVars, seqVars, thrVars, pureVars>>
AgentGetMemoryView(name, topic) ==
    LET n_topic == Normalize(name, topic)
        key == <<name, n_topic>>
        now == current_time[name]
        forgotten == /\ key \in DOMAIN nodes
                     /\ GetRetrievability(now, nodes[key].stability,
                                           nodes[key].last_review) < One \div 5
    IN
    /\ agent_call' = AgentCall("get_memory_view", name, <<>>)
    /\ agent_exc' = None
    /\ IF Falsy(n_topic)
       THEN /\ view' = [NoView EXCEPT !.kind = "confused", !.topic = topic]
            /\ db_reads' = 0
       ELSE IF forgotten
       THEN /\ view' = [NoView EXCEPT !.kind = "forgotten", !.topic = topic]
            /\ db_reads' = 1
       ELSE \E my_rows \in { GetAgentStance(edges, name, n_topic, now, clocks, order) :
                                  clocks \in ClockOrders, order \in RowOrders },
               world_rows \in { GetWorldKnowledge(edges, name, n_topic, 8, order) :
                                  order \in RowOrders } :
              LET fact_rows == SelectSeq(world_rows, IsFactRow)
                  others_rows == SelectSeq(world_rows, IsOthersRow)
                  my_beliefs ==
                      DictKeys([i \in 1..Len(my_rows) |-> BeliefStr(edges, my_rows[i])])
                  world_facts ==
                      DictKeys([i \in 1..Len(fact_rows) |-> FactStr(edges, fact_rows[i])])
                  others_beliefs ==
                      DictKeys([i \in 1..Len(others_rows) |-> FactStr(edges, others_rows[i])])
              IN /\ view' = [kind |-> "context", topic |-> topic,
                             my_rows |-> my_rows, world_rows |-> world_rows,
                             stance |-> my_beliefs,
                             facts |-> Limit(world_facts, 5),
                             others |-> Limit(others_beliefs, 3)]
                 /\ db_reads' = 3
    /\ UNCHANGED <<current_time, nodes, edges, reviews_done, feed, fed, absorb>>
    /\ UNCHANGED <<cacheVars, seqVars, thrVars, pureVars>>

(***************************************************************************)
(* CognitiveLoop.absorb (core/cognitive.py)                                *)
(***************************************************************************)
\* a key an extracted item does not have
Missing == <<"<missing>">>
\* dict.get(key, default)
ItemGet(value, default) == IF value = Missing THEN default ELSE value

\* one extracted item of data["world_facts"], data["partner_stance"] or
\* data["my_reaction"]; sentiment and rating are Null where the item has none
Item(list, source, relation, target, sentiment, rating) ==
    [list |-> list, source |-> source, relation |-> relation, target |-> target,
     sentiment |-> sentiment, rating |-> rating]

\* the learn_triplet call absorb makes for an item
AbsorbCall(item) ==
    IF item.list = "world_facts"
    THEN [source |-> ItemGet(item.source, <<>>), relation |-> ItemGet(item.relation, <<>>),
          target |-> ItemGet(item.target, <<>>), rating |-> Null, sentiment |-> 0]
    ELSE IF item.list = "partner_stance"
    THEN [source |-> ItemGet(item.source, <<>>), relation |-> ItemGet(item.relation, <<>>),
          target |-> ItemGet(item.target, <<>>), rating |-> Null,
          sentiment |-> item.sentiment]
    ELSE [source |-> SelfToken, relation |-> ItemGet(item.relation, <<>>),
          target |-> ItemGet(item.target, <<>>),
          rating |-> IF item.rating = Null THEN RatingGood ELSE item.rating,
          sentiment |-> item.sentiment]

\* `if not source or not relation or not target` / `if not relation or not target`
SkippedTargetUnchecked(item) ==
    LET call == AbsorbCall(item) IN
    IF item.list = "my_reaction"
    THEN Falsy(call.relation)
    ELSE Falsy(call.source) \/ Falsy(call.relation)
Skipped(item) ==
    LET call == AbsorbCall(item) IN
    IF item.list = "my_reaction"
    THEN Falsy(call.relation) \/ Falsy(call.target)
    ELSE Falsy(call.source) \/ Falsy(call.relation) \/ Falsy(call.target)

\* absorb(text, author) once the extractor has returned `data`, the items of
\* its three lists in the order absorb walks them
AbsorbExtract(name, data) ==
    /\ absorb.state \in {"idle", "done", "raised"}
    /\ absorb' = [data |-> data, index |-> 0, calls |-> <<>>, exc |-> None,
                  state |-> "items"]
    /\ agent_call' = AgentCall("absorb", name, <<>>)
    /\ agent_exc' = None
    /\ UNCHANGED <<current_time, nodes, edges, reviews_done, view, db_reads, feed, fed>>
    /\ UNCHANGED <<cacheVars, seqVars, thrVars, pureVars>>

\* one turn of the loops over the items: skip the item or learn it; an
\* exception of learn_triplet leaves absorb
AbsorbItem(name) ==
    /\ absorb.state = "items"
    /\ absorb.index < Len(absorb.data)
    /\ LET item == absorb.data[absorb.index + 1]
           call == AbsorbCall(item)
       IN IF Skipped(item)
          THEN /\ absorb' = [absorb EXCEPT !.index = @ + 1]
               /\ agent_call' = AgentCall("absorb", name, <<>>)
               /\ agent_exc' = None
               /\ UNCHANGED <<current_time, nodes, edges, reviews_done, view, db_reads,
                              feed, fed>>
               /\ UNCHANGED <<cacheVars, seqVars, thrVars, pureVars>>
          ELSE /\ LearnTripletEffect(name, call.source, call.relation, call.target,
                                     call.rating, call.sentiment)
               /\ absorb' = [absorb EXCEPT !.index = @ + 1,
                                           !.calls = Append(@, call),
                                           !.exc = agent_exc',
                                           !.state = IF agent_exc' = None THEN "items"
                                                     ELSE "raised"]
               /\ UNCHANGED fed

\* db.log_interaction(name, "READ", text, data) after the last item
AbsorbLog(name) ==
    /\ absorb.state = "items"
    /\ absorb.index = Len(absorb.data)
    /\ absorb' = [absorb EXCEPT !.state = "done"]
    /\ agent_call' = AgentCall("absorb", name, <<>>)
    /\ agent_exc' = None
    /\ UNCHANGED <<current_time, nodes, edges, reviews_done, view, db_reads, feed, fed>>
    /\ UNCHANGED <<cacheVars, seqVars, thrVars, pureVars>>

(***************************************************************************)
(* Calls of the functions that touch no state                              *)
(***************************************************************************)
PureCall(name, args, result) == [op |-> name, args |-> args, result |-> result]
PureFrame == UNCHANGED <<cacheVars, seqVars, thrVars, current_time, nodes, edges,
                         agent_call, agent_exc, reviews_done, viewVars, singleton,
                         reviewers>>

\* sentiments from -1.0 to 1.0 in steps of 0.005, and None
SentimentInputs ==
    { 50 * i : i \in (0 - MaxSentimentIndex)..MaxSentimentIndex } \cup {Null}

\* agent._get_sentiment_qualifier(sentiment)
CallSentimentQualifier(sentiment) ==
    /\ pure_call' = PureCall("_get_sentiment_qualifier", <<sentiment>>,
                             SentimentQualifier(sentiment))
    /\ PureFrame

(***************************************************************************)
(* The lazily built singletons: ModelCache.get_gliner_model                *)
(* (extraction/extraction.py) and get_global_cache (memory/cache.py)       *)
(***************************************************************************)
SingletonFrame == UNCHANGED <<cacheVars, seqVars, thrVars, current_time, nodes, edges,
                              agent_call, agent_exc, reviews_done, viewVars, pure_call,
                              reviewers>>

\* import of extraction.py: HAS_FAST_MODE tells whether gliner could be imported
ImportExtraction(has_fast_mode) ==
    /\ singleton.HAS_FAST_MODE = "not imported"
    /\ singleton' = [singleton EXCEPT !.HAS_FAST_MODE = has_fast_mode]
    /\ SingletonFrame

\* a caller enters a getter; without fast mode get_gliner_model returns None at once
GetCall(c, g) ==
    /\ singleton.pc[c] = "idle"
    /\ singleton.gets[c] < MaxGets
    /\ g = "get_gliner_model" => singleton.HAS_FAST_MODE # "not imported"
    /\ IF g = "get_gliner_model" /\ singleton.HAS_FAST_MODE = "no"
       THEN singleton' = [singleton EXCEPT !.getter[c] = g,
                                           !.gets[c] = @ + 1,
                                           !.returned[g] = @ \cup {Null}]
       ELSE singleton' = [singleton EXCEPT !.getter[c] = g, !.pc[c] = "check"]
    /\ SingletonFrame

\* `if _model is None:` outside the lock
FirstCheck(c) ==
    /\ singleton.pc[c] = "check"
    /\ singleton' = [singleton EXCEPT !.pc[c] =
                        IF singleton.instance[singleton.getter[c]] = Null
                        THEN "acquire" ELSE "return"]
    /\ SingletonFrame

\* `with _lock:` blocks while another caller holds the lock
AcquireLock(c) ==
    /\ singleton.pc[c] = "acquire"
    /\ singleton.lock[singleton.getter[c]] = None
    /\ singleton' = [singleton EXCEPT !.lock[singleton.getter[c]] = c, !.pc[c] = "recheck"]
    /\ SingletonFrame

\* `if _model is None:` under the lock
NeedsConstructionUnchecked(instance) == TRUE
NeedsConstruction(instance) == instance = Null

SecondCheck(c) ==
    /\ singleton.pc[c] = "recheck"
    /\ singleton' = [singleton EXCEPT !.pc[c] =
                        IF NeedsConstruction(singleton.instance[singleton.getter[c]])
                        THEN "construct" ELSE "release"]
    /\ SingletonFrame

\* GLiNER.from_pretrained(...) / AgentCache(...): a new object each time it runs,
\* or, for the model, an exception when it cannot be loaded
Construct(c, loads) ==
    LET g == singleton.getter[c] IN
    /\ singleton.pc[c] = "construct"
    /\ g = "get_global_cache" => loads
    /\ IF loads
       THEN singleton' = [singleton EXCEPT !.instance[g] = singleton.constructed[g] + 1,
                                           !.constructed[g] = @ + 1,
                                           !.pc[c] = "release"]
       ELSE singleton' = [singleton EXCEPT !.pc[c] = "raise"]
    /\ SingletonFrame

\* the end of the `with` block, left normally or by the exception
ReleaseLock(c) ==
    LET g == singleton.getter[c] IN
    /\ singleton.pc[c] \in {"release", "raise"}
    /\ IF singleton.pc[c] = "release"
       THEN singleton' = [singleton EXCEPT !.lock[g] = None, !.pc[c] = "return"]
       ELSE singleton' = [singleton EXCEPT !.lock[g] = None, !.pc[c] = "idle",
                                           !.gets[c] = @ + 1,
                                           !.raised = @ \cup {c}]
    /\ SingletonFrame

\* `return _model`: the global is read once more
ReturnInstance(c) ==
    LET g == singleton.getter[c] IN
    /\ singleton.pc[c] = "return"
    /\ singleton' = [singleton EXCEPT !.returned[g] = @ \cup {singleton.instance[g]},
                                       !.pc[c] = "idle",
                                       !.gets[c] = @ + 1]
    /\ SingletonFrame

(***************************************************************************)
(* Specifications                                                          *)
(***************************************************************************)
NextCache ==
    \/ \E a \in CacheAgents, t \in CacheTopics, v \in Values : PutContext(a, t, v)
    \/ \E a \in CacheAgents, t \in CacheTopics : GetContext(a, t)
    \/ \E m \in MemArgs, v \in Values : PutMemoryView(m[1], v, m[2], m[3])
    \/ \E m \in MemArgs : GetMemoryView(m[1], m[2], m[3])
    \/ \E a \in CacheAgents : InvalidateAgent(a)
    \/ Clear
    \/ GetStats

InitCacheSpec == InitCache /\ InitSeq /\ InitThreads /\ InitAgent
SpecCache == InitCacheSpec /\ [][NextCache]_vars

NextThreads ==
    \E t \in Threads :
        \/ \E call \in ThreadCalls : Begin(t, call)
        \/ Acquire(t)
        \/ PutCheck(t)
        \/ EvictLen(t)
        \/ EvictMin(t)
        \/ EvictDel(t)
        \/ PutStamp(t)
        \/ PutStore(t)
        \/ GetCheck(t)
        \/ GetRead(t)
        \/ GetStamp(t)
        \/ GetStore(t)
        \/ InvCount(t)
        \/ InvClear(t)
        \/ Stats(t)

NextAgent ==
    \E a \in Agents :
        \/ \E t \in SimTimes : SetTime(a, t)
        \/ \E c \in RawConcepts, r \in Ratings : UpdateMemory(a, c, r)
        \/ \E src \in RawSources, rel \in RawRelations, tgt \in RawTargets,
              r \in LearnRatings, snt \in Sentiments :
                LearnTriplet(a, src, rel, tgt, r, snt)

InitAgentSpec == InitDefaultCache /\ InitSeq /\ InitThreads /\ InitAgent
SpecAgent == InitAgentSpec /\ [][NextAgent]_vars

InitThreadsSpec == InitCache /\ InitSeq /\ InitThreads /\ InitAgent
\* the reinforcement scenario: ("I", "support", "UBI") learnt again and again
\* while the clock moves, in Calendar or Round mode
ReinforceTimes == SimTimes \cup { SimRound(2, 9) }
SupportRelation == <<"s", "u", "p", "p", "o", "r", "t">>
UbiTarget == <<"U", "B", "I">>
NextReinforce ==
    \E a \in Agents :
        \/ \E t \in ReinforceTimes : SetTime(a, t)
        \/ \E r \in {Null, RatingGood}, snt \in {Null, 8000} :
              LearnTriplet(a, SelfToken, SupportRelation, UbiTarget, r, snt)

SpecReinforce == InitAgentSpec /\ [][NextReinforce]_vars

\* the memory-view scenario: a script of writes is fed call by call while the
\* clock moves forward, and the agent is asked for its view of a topic
StanceFeed == <<
    Fed("learn_triplet", <<"I">>, <<"s", "u", "p", "p", "o", "r", "t", "s">>, <<"U", "B", "I">>, Null, 8000),
    Fed("add_relation", <<"A", "l", "i", "c", "e">>, <<"s", "u", "p", "p", "o", "r", "t", "s">>, <<"u", "b", "i">>, Null, 8000),
    Fed("learn_triplet", <<"I">>, <<"l", "i", "k", "e", "s">>, <<"u", "b", "i", " ", "p", "i", "l", "o", "t", "s">>, Null, 2000),
    Fed("learn_triplet", <<"I">>, <<"o", "p", "p", "o", "s", "e", "s">>, <<"t", "a", "x", "e", "s">>, Null, 0 - 5000),
    Fed("learn_triplet", <<"I">>, <<"w", "a", "n", "t", "s">>, <<"u", "b", "i", " ", "t", "r", "i", "a", "l", "s">>, Null, Null),
    Fed("learn_triplet", <<"I">>, <<"t", "r", "u", "s", "t", "s">>, <<"u", "b", "i", " ", "d", "a", "t", "a">>, Null, 4000),
    Fed("learn_triplet", <<"I">>, <<"r", "e", "a", "d", "s">>, <<"u", "b", "i", " ", "n", "e", "w", "s">>, Null, Null),
    Fed("learn_triplet", <<"I">>, <<"l", "i", "k", "e", "s">>, <<"u", "b", "i", " ", "f", "u", "n", "d", "s">>, Null, Null),
    Fed("learn_triplet", <<"I">>, <<"b", "a", "c", "k", "s">>, <<"u", "b", "i", " ", "b", "i", "l", "l", "s">>, Null, Null),
    Fed("learn_triplet", <<"I">>, <<"s", "u", "p", "p", "o", "r", "t", "s">>, <<"U", "B", "I">>, Null, 3000) >>
WorldFeed == <<
    Fed("learn_triplet", <<"B", "o", "b">>, <<"r", "e", "d", "u", "c", "e", "s">>, <<"u", "b", "i", " ", "c", "o", "s", "t", "s">>, Null, Null),
    Fed("learn_triplet", <<"B", "o", "b">>, <<"r", "e", "d", "u", "c", "e", "s">>, <<"u", "b", "i", " ", "r", "i", "s", "k", "s">>, Null, 5000),
    Fed("learn_triplet", <<"B", "o", "b">>, <<"r", "e", "d", "u", "c", "e", "s">>, <<"u", "b", "i", " ", "g", "a", "p", "s">>, Null, Null),
    Fed("learn_triplet", <<"B", "o", "b">>, <<"r", "e", "d", "u", "c", "e", "s">>, <<"u", "b", "i", " ", "d", "e", "b", "t", "s">>, Null, 0 - 2000),
    Fed("learn_triplet", <<"B", "o", "b">>, <<"r", "e", "d", "u", "c", "e", "s">>, <<"u", "b", "i", " ", "f", "e", "a", "r", "s">>, Null, Null),
    Fed("learn_triplet", <<"B", "o", "b">>, <<"r", "e", "d", "u", "c", "e", "s">>, <<"u", "b", "i", " ", "w", "a", "s", "t", "e">>, Null, Null),
    Fed("learn_triplet", <<"B", "o", "b">>, <<"l", "i", "k", "e", "s">>, <<"u", "b", "i">>, Null, 7000),
    Fed("learn_triplet", <<"B", "o", "b">>, <<"w", "a", "n", "t", "s">>, <<"u", "b", "i">>, Null, Null),
    Fed("learn_triplet", <<"B", "o", "b">>, <<"s", "u", "p", "p", "o", "r", "t", "s">>, <<"u", "b", "i">>, Null, Null),
    Fed("learn_triplet", <<"B", "o", "b">>, <<"t", "h", "i", "n", "k", "s">>, <<"u", "b", "i">>, Null, Null) >>
MixedFeed == <<
    Fed("learn_triplet", <<"U", "B", "I">>, <<"r", "e", "d", "u", "c", "e", "s">>, <<"p", "o", "v", "e", "r", "t", "y">>, Null, Null),
    Fed("learn_triplet", <<"B", "o", "b">>, <<"l", "i", "k", "e", "s">>, <<"U", "B", "I">>, Null, 7000),
    Fed("add_relation", <<"A", "l", "i", "c", "e">>, <<"f", "u", "n", "d", "s">>, <<"u", "b", "i">>, Null, Null),
    Fed("learn_triplet", <<"I">>, <<"s", "u", "p", "p", "o", "r", "t", "s">>, <<"U", "B", "I">>, Null, Null),
    Fed("learn_triplet", <<"B", "o", "b">>, <<"i", "s">>, <<"t", "h", "e">>, Null, Null),
    Fed("add_relation", <<"b", "o", "b">>, <<"l", "i", "k", "e", "s">>, <<"u", "b", "i">>, Null, 20000),
    Fed("learn_triplet", <<"I">>, <<"l", "i", "k", "e", "s">>, <<"t", "a", "x">>, RatingAgain, Null) >>
Feeds == {StanceFeed, WorldFeed, MixedFeed}
ViewTimes == <<SimDatetime(0), SimDatetime(2), SimDatetime(240), SimRound(1, 9), SimRound(2, 9)>>
RawTopics == { <<"U", "B", "I">>, <<"t", "a", "x">>, <<"!", "?">>, NullStr }

FeedRound == 4      \* the clock moves between rounds of so many writes

InitView == InitAgentState /\ feed \in Feeds
InitViewSpec == InitDefaultCache /\ InitSeq /\ InitThreads /\ InitView

NextView ==
    \E a \in Agents :
        \/ \E i, j \in 1..Len(ViewTimes) :
              /\ fed % FeedRound = 0 \/ fed = Len(feed)
              /\ current_time[a] = ViewTimes[i]
              /\ i < j
              /\ SetTime(a, ViewTimes[j])
        \/ FeedNext(a)
        \/ \E topic \in RawTopics : AgentGetMemoryView(a, topic)

SpecView == InitViewSpec /\ [][NextView]_vars

\* what agent._get_retrievability is asked with, and the clocks it is asked under
StabilityInputs == {0, One \div 5, P(2), 5 * One}
LastReviewInputs == {Null, 0, HoursPerDay}
PureTimes == { SimDatetime(12 * i) : i \in 0..4 } \cup { SimDatetime(100 * HoursPerDay), SimRound(1, 9) }

\* agent._get_retrievability(stability, last_review), under the agent's clock
CallGetRetrievability(name, stability, last_review) ==
    /\ pure_call' = PureCall("_get_retrievability",
                             <<current_time[name], stability, last_review>>,
                             GetRetrievability(current_time[name], stability, last_review))
    /\ PureFrame

\* the normalized triples agent._is_valid_triple is asked about
SourceInputs == { NullStr, <<>>, SelfToken, <<"x">>, <<"i", "t">>, <<"a">>, <<"t", "e", "x", "t">>, <<"n", "o", "u", "n">>, <<"c", "l", "i", "m", "a", "t", "e">> }
RelationInputs == { NullStr, <<>>, <<"i", "s">>, <<"n", "o", "u", "n">>, <<"o", "p", "i", "n", "i", "o", "n">>, <<"c", "a", "u", "s", "e", "s">> }
TargetInputs == { NullStr, <<>>, SelfToken, <<"y">>, <<"t", "h", "e">>, <<"a", "n">>, <<"t", "e", "x", "t">>, <<"g", "e", "n", "e", "r", "a", "l", " ", "k", "n", "o", "w", "l", "e", "d", "g", "e">>, <<"d", "r", "o", "u", "g", "h", "t">> }

\* agent._is_valid_triple(src, rel, tgt)
CallIsValidTriple(src, rel, tgt) ==
    /\ pure_call' = PureCall("_is_valid_triple", <<src, rel, tgt>>, IsValidTriple(src, rel, tgt))
    /\ PureFrame

\* the names agents are given and the texts agent._normalize is asked about
NameInputs == { AliceName, <<"A", "g", "e", "n", "t", "_", "1">> }
TextInputs == { NullStr, <<>>,
    <<"I">>,
    <<"i">>,
    <<"M", "e">>,
    <<"m", "e">>,
    <<"M", "Y", "S", "E", "L", "F">>,
    <<"m", "y", "s", "e", "l", "f">>,
    <<"A", "l", "i", "c", "e">>,
    <<"A", "L", "I", "C", "E">>,
    <<"a", "l", "i", "c", "e">>,
    <<" ", "A", "l", "i", "c", "e", " ">>,
    <<"A", "g", "e", "n", "t", "_", "1">>,
    <<"a", "g", "e", "n", "t", "_", "1">>,
    <<"A", "G", "E", "N", "T", "_", "1">>,
    <<"U", "B", "I">>,
    <<"!", "?">>,
    <<"t", "a", "x", " ", "!">>,
    <<"-", " ", "T", "a", "x">>,
    <<"R", "o", "c", "k", " ", "&", " ", "R", "o", "l", "l">>,
    <<" ", "U", ".", "B", ".", "I", ".", " ">> }

\* agent._normalize(text) of the agent called `name`
CallNormalize(name, text) ==
    /\ pure_call' = PureCall("_normalize", <<name, text>>, Normalize(name, text))
    /\ PureFrame

\* the arguments SimulationTime is constructed with
DatetimeInputs == { Nothing, Some(0), Some(HoursPerDay) }
DayInputs == { Nothing, Some(0 - 1), Some(0), Some(1), Some(5) }
HourInputs == { Nothing, Some(0 - 1), Some(0), Some(23), Some(24) }

\* SimulationTime(datetime_value, day, hour)
CallSimulationTime(datetime_value, day, hour) ==
    /\ pure_call' = PureCall("SimulationTime", <<datetime_value, day, hour>>,
                             SimulationTimeInit(datetime_value, day, hour))
    /\ PureFrame

\* agent._normalize applied to what the last agent._normalize returned
CallNormalizeAgain(name) ==
    /\ pure_call.op = "_normalize"
    /\ pure_call.args[1] = name
    /\ pure_call' = PureCall("_normalize", <<name, pure_call.result>>,
                             Normalize(name, pure_call.result))
    /\ PureFrame

InitPureSpec == InitDefaultCache /\ InitSeq /\ InitThreads /\ InitAgent

NextRetrievability ==
    \/ \E a \in Agents, t \in PureTimes : SetTime(a, t)
    \/ \E a \in Agents, stability \in StabilityInputs, last_review \in LastReviewInputs :
          CallGetRetrievability(a, stability, last_review)

SpecRetrievability == InitPureSpec /\ [][NextRetrievability]_vars

NextPure ==
    \/ \E name \in NameInputs : CallNormalizeAgain(name)
    \/ \E datetime_value \in DatetimeInputs, day \in DayInputs, hour \in HourInputs :
          CallSimulationTime(datetime_value, day, hour)
    \/ \E name \in NameInputs, text \in TextInputs : CallNormalize(name, text)
    \/ \E src \in SourceInputs, rel \in RelationInputs, tgt \in TargetInputs :
          CallIsValidTriple(src, rel, tgt)
    \/ \E sentiment \in SentimentInputs : CallSentimentQualifier(sentiment)

SpecPure == InitPureSpec /\ [][NextPure]_vars

\* the gatekeeper scenario: triples the gatekeeper must drop, between triples
\* it admits, learnt under Calendar and Round clocks
GarbageFeed == <<
    Fed("learn_triplet", <<"B", "o", "b">>, <<"l", "i", "k", "e", "s">>, <<"U", "B", "I">>, Null, 7000),
    Fed("learn_triplet", <<"i", "t">>, <<"i", "s">>, <<"t", "h", "e">>, Null, Null),
    Fed("learn_triplet", <<"a">>, <<"n", "o", "u", "n">>, <<"t", "e", "x", "t">>, RatingEasy, Null),
    Fed("learn_triplet", <<"I">>, <<"l", "i", "k", "e", "s">>, <<"x">>, Null, 8000),
    Fed("learn_triplet", <<>>, <<"l", "i", "k", "e", "s">>, <<"U", "B", "I">>, Null, Null),
    Fed("learn_triplet", <<"B", "o", "b">>, <<"o", "p", "i", "n", "i", "o", "n">>, <<"U", "B", "I">>, Null, Null),
    Fed("learn_triplet", <<"I">>, <<"s", "u", "p", "p", "o", "r", "t", "s">>, <<"U", "B", "I">>, Null, 8000),
    Fed("learn_triplet", <<"B", "o", "b">>, <<"l", "i", "k", "e", "s">>, <<"!", "?">>, Null, Null),
    Fed("learn_triplet", NullStr, <<"l", "i", "k", "e", "s">>, <<"U", "B", "I">>, Null, Null) >>
GatekeeperTimes == { SimDatetime(0), SimDatetime(HoursPerDay), SimRound(1, 9) }

InitGatekeeper == InitAgentState /\ feed = GarbageFeed
InitGatekeeperSpec == InitDefaultCache /\ InitSeq /\ InitThreads /\ InitGatekeeper

NextGatekeeper ==
    \E a \in Agents :
        \/ \E t \in GatekeeperTimes : SetTime(a, t)
        \/ FeedNext(a)

SpecGatekeeper == InitGatekeeperSpec /\ [][NextGatekeeper]_vars

\* the learning scenario: triples the gatekeeper admits, with sources that are
\* and are not the agent, a sentiment out of range, punctuation set off by a
\* blank, and a direct add_relation onto a reviewed node
LearnFeed == <<
    Fed("learn_triplet", <<"B", "o", "b">>, <<"l", "i", "k", "e", "s">>, <<"U", "B", "I">>, RatingEasy, 7000),
    Fed("learn_triplet", <<"I">>, <<"s", "u", "p", "p", "o", "r", "t", "s">>, <<"U", "B", "I">>, Null, 8000),
    Fed("add_relation", <<"c", "a", "r", "o", "l">>, <<"s", "a", "y", "s">>, <<"u", "b", "i">>, Null, 3000),
    Fed("learn_triplet", <<"B", "o", "b">>, <<"l", "i", "k", "e", "s">>, <<"U", "B", "I">>, RatingAgain, 15000),
    Fed("learn_triplet", <<"B", "o", "b">>, <<"l", "i", "k", "e", "s">>, <<"t", "a", "x", " ", "!">>, Null, Null),
    Fed("learn_triplet", <<"I", " ", "!">>, <<"l", "i", "k", "e", "s">>, <<"c", "a", "s", "h">>, Null, 2000),
    Fed("learn_triplet", <<"B", "o", "b">>, <<"k", "n", "o", "w", "s">>, <<"B", "o", "b">>, RatingHard, 0) >>
LearnTimes == { SimDatetime(0), SimDatetime(HoursPerDay), SimRound(1, 9) }

InitLearn == InitAgentState /\ feed = LearnFeed
InitLearnSpec == InitDefaultCache /\ InitSeq /\ InitThreads /\ InitLearn

NextLearn ==
    \E a \in Agents :
        \/ \E t \in LearnTimes : SetTime(a, t)
        \/ FeedNext(a)

SpecLearn == InitLearnSpec /\ [][NextLearn]_vars

(***************************************************************************)
(* update_memory of one (owner, concept) by two callers side by side, each  *)
(* a GhostAgent of the same name on the same database                      *)
(***************************************************************************)
ReviewFrame == UNCHANGED <<cacheVars, seqVars, thrVars, current_time, edges,
                           agent_call, agent_exc, reviews_done, viewVars, pure_call,
                           singleton>>
ReviewKey == <<AliceName, Normalize(AliceName, UbiTarget)>>

\* update_memory(concept_name, rating) is entered under the caller's clock
ReviewCall(r, rating, now) ==
    /\ reviewers.pc[r] = "idle"
    /\ reviewers.calls < MaxReviewCalls
    /\ reviewers' = [reviewers EXCEPT !.pc[r] = "get_node", !.rating[r] = rating,
                                      !.now[r] = now, !.calls = @ + 1]
    /\ UNCHANGED nodes
    /\ ReviewFrame

\* agent.py:237-263  row = self.db.get_node(...) in a session of its own, then
\* new_state = self.fsrs.calculate_next(current, rating, self.current_time)
ReviewGetNode(r) ==
    /\ reviewers.pc[r] = "get_node"
    /\ reviewers' = [reviewers EXCEPT
          !.pc[r] = "upsert",
          !.new_state[r] = CalculateNext(CurrentState(nodes, ReviewKey[1], ReviewKey[2]),
                                         reviewers.rating[r], reviewers.now[r])]
    /\ UNCHANGED nodes
    /\ ReviewFrame

\* database.py:260-263  existing_node = session.query(Node).filter_by(...).first()
\* in the session _execute_with_session opened
LoadedRow(ns, key) ==
    IF key \in DOMAIN ns
    THEN [found |-> TRUE, stability |-> ns[key].stability, difficulty |-> ns[key].difficulty,
          last_review |-> ns[key].last_review, reps |-> ns[key].reps, state |-> ns[key].state,
          sim_day |-> ns[key].sim_day, sim_hour |-> ns[key].sim_hour]
    ELSE NoRow
ReviewQuery(r) ==
    /\ reviewers.pc[r] = "upsert"
    /\ reviewers' = [reviewers EXCEPT !.pc[r] = "commit",
                                      !.existing_node[r] = LoadedRow(nodes, ReviewKey)]
    /\ UNCHANGED nodes
    /\ ReviewFrame

\* database.py:265-274 and session.commit() (database.py:199): the session
\* writes the attributes whose assigned value differs from the value it loaded,
\* in one UPDATE of the row as it is stored by then
FlushUpdateAllColumns(row, loaded, fsrs_state, timestamp) ==
    [row EXCEPT !.stability = fsrs_state.stability,
                !.difficulty = fsrs_state.difficulty,
                !.last_review = fsrs_state.last_review,
                !.reps = fsrs_state.reps,
                !.state = fsrs_state.state,
                !.sim_day = SimDayOf(timestamp),
                !.sim_hour = SimHourOf(timestamp)]
FlushUpdate(row, loaded, fsrs_state, timestamp) ==
    [row EXCEPT
       !.stability = IF fsrs_state.stability # loaded.stability
                     THEN fsrs_state.stability ELSE @,
       !.difficulty = IF fsrs_state.difficulty # loaded.difficulty
                      THEN fsrs_state.difficulty ELSE @,
       !.last_review = IF fsrs_state.last_review # loaded.last_review
                       THEN fsrs_state.last_review ELSE @,
       !.reps = IF fsrs_state.reps # loaded.reps THEN fsrs_state.reps ELSE @,
       !.state = IF fsrs_state.state # loaded.state THEN fsrs_state.state ELSE @,
       !.sim_day = IF SimDayOf(timestamp) # loaded.sim_day THEN SimDayOf(timestamp) ELSE @,
       !.sim_hour = IF SimHourOf(timestamp) # loaded.sim_hour
                    THEN SimHourOf(timestamp) ELSE @]

\* database.py:265-298  the row is updated or inserted and the session commits;
\* an INSERT of a key another session has inserted meanwhile breaks the primary
\* key and upsert_node raises DatabaseError
ReviewCommit(r) ==
    LET loaded == reviewers.existing_node[r]
        new_state == reviewers.new_state[r]
        now == reviewers.now[r] IN
    /\ reviewers.pc[r] = "commit"
    /\ IF loaded.found
       THEN /\ nodes' = [nodes EXCEPT ![ReviewKey] = FlushUpdate(@, loaded, new_state, now)]
            /\ reviewers' = [reviewers EXCEPT !.pc[r] = "idle", !.last_write = new_state]
       ELSE IF ReviewKey \in DOMAIN nodes
       THEN /\ UNCHANGED nodes
            /\ reviewers' = [reviewers EXCEPT !.pc[r] = "idle", !.raised = @ \cup {r}]
       ELSE /\ nodes' = UpsertNode(nodes, ReviewKey[1], ReviewKey[2], new_state, now)
            /\ reviewers' = [reviewers EXCEPT !.pc[r] = "idle", !.last_write = new_state]
    /\ ReviewFrame

ReviewRatings == {RatingAgain, RatingGood}
ReviewTimes == {SimDatetime(0), SimDatetime(HoursPerDay)}
InitReviewSpec == InitDefaultCache /\ InitSeq /\ InitThreads /\ InitAgent
NextReview ==
    \E r \in Reviewers :
        \/ \E rating \in ReviewRatings, now \in ReviewTimes : ReviewCall(r, rating, now)
        \/ ReviewGetNode(r)
        \/ ReviewQuery(r)
        \/ ReviewCommit(r)
SpecReview == InitReviewSpec /\ [][NextReview]_vars

\* two agents on one shared database, each call of the script made by either
BobName == <<"B", "o", "b">>
SharedAgents == {AliceName, BobName}
StoreFeed == <<
    Fed("add_relation", <<"I">>, <<"l", "i", "k", "e", "s">>, <<"u", "b", "i">>, Null, 5000),
    Fed("add_relation", <<"I">>, <<"l", "i", "k", "e", "s">>, <<"u", "b", "i">>, Null, Null),
    Fed("add_relation", <<"c", "a", "r", "o", "l">>, <<"s", "a", "y", "s">>, <<"u", "b", "i">>, Null, 15000),
    Fed("update_memory", <<>>, <<>>, <<"U", "B", "I">>, RatingGood, Null),
    Fed("learn_triplet", <<"I">>, <<"l", "i", "k", "e", "s">>, <<"U", "B", "I">>, Null, 0 - One),
    Fed("add_relation", <<"d", "a", "v", "e">>, <<"s", "a", "y", "s">>, <<"u", "b", "i">>, Null, Null),
    Fed("learn_triplet", <<"D", "a", "v", "e">>, <<"s", "a", "y", "s">>, <<"U", "B", "I">>, RatingEasy, 0 - 10001) >>
StoreTimes == <<SimDatetime(0), SimDatetime(HoursPerDay), SimRound(1, 9)>>
StoreTopics == { <<"U", "B", "I">> }

InitStore == InitAgents(SharedAgents) /\ feed = StoreFeed
InitStoreSpec == InitDefaultCache /\ InitSeq /\ InitThreads /\ InitStore

NextStore ==
    \E a \in SharedAgents :
        \/ \E i, j \in 1..Len(StoreTimes) :
              /\ fed % FeedRound = 0 \/ fed = Len(feed)
              /\ current_time[a] = StoreTimes[i]
              /\ i < j
              /\ SetTime(a, StoreTimes[j])
        \/ FeedNext(a)
        \/ \E topic \in StoreTopics : AgentGetMemoryView(a, topic)
SpecStore == InitStoreSpec /\ [][NextStore]_vars

InitSingletonSpec == InitDefaultCache /\ InitSeq /\ InitThreads /\ InitAgent
NextSingleton ==
    \/ \E has_fast_mode \in {"yes", "no"} : ImportExtraction(has_fast_mode)
    \/ \E c \in Callers :
          \/ \E g \in Getters : GetCall(c, g)
          \/ FirstCheck(c)
          \/ AcquireLock(c)
          \/ SecondCheck(c)
          \/ \E loads \in BOOLEAN : Construct(c, loads)
          \/ ReleaseLock(c)
          \/ ReturnInstance(c)
SpecSingleton == InitSingletonSpec /\ [][NextSingleton]_vars

\* what the extractor hands to absorb: the batch of the repository's test with
\* its missing keys, a batch with a sentiment out of range, and one that repeats
\* an edge
TestBatch == <<
    Item("world_facts", <<"B", "o", "b">>, <<"s", "a", "y", "s">>, Missing, Null, Null),
    Item("world_facts", Missing, <<"b", "e", "l", "i", "e", "v", "e", "s">>, <<"c", "l", "i", "m", "a", "t", "e">>, Null, Null),
    Item("world_facts", Missing, Missing, Missing, Null, Null),
    Item("world_facts", <<"A", "l", "i", "c", "e">>, <<"s", "u", "p", "p", "o", "r", "t", "s">>, <<"U", "B", "I">>, Null, Null),
    Item("partner_stance", <<"A", "l", "i", "c", "e">>, Missing, <<"U", "B", "I">>, 0, Null),
    Item("partner_stance", <<"A", "l", "i", "c", "e">>, <<"s", "u", "p", "p", "o", "r", "t", "s">>, Missing, 0, Null),
    Item("partner_stance", <<"B", "o", "b">>, <<"o", "p", "p", "o", "s", "e", "s">>, <<"t", "a", "x", "e", "s">>, 0, Null),
    Item("my_reaction", Missing, <<"w", "o", "r", "r", "i", "e", "d", "_", "a", "b", "o", "u", "t">>, Missing, 0, Null),
    Item("my_reaction", Missing, Missing, <<"e", "c", "o", "n", "o", "m", "y">>, 0, Null),
    Item("my_reaction", Missing, <<"c", "a", "r", "e", "_", "a", "b", "o", "u", "t">>, <<"c", "l", "i", "m", "a", "t", "e">>, 0, Null) >>
RaisingBatch == <<
    Item("world_facts", <<"B", "o", "b">>, <<"l", "i", "k", "e", "s">>, <<>>, Null, Null),
    Item("partner_stance", <<"B", "o", "b">>, <<"s", "u", "p", "p", "o", "r", "t", "s">>, <<"U", "B", "I">>, 15000, Null),
    Item("partner_stance", <<"B", "o", "b">>, <<"o", "p", "p", "o", "s", "e", "s">>, <<"t", "a", "x", "e", "s">>, 0 - 5000, Null),
    Item("my_reaction", Missing, NullStr, <<"e", "c", "o", "n", "o", "m", "y">>, 0, Null),
    Item("my_reaction", Missing, <<"l", "i", "k", "e", "s">>, <<"U", "B", "I">>, 8000, RatingEasy) >>
RepeatingBatch == <<
    Item("my_reaction", Missing, <<"l", "i", "k", "e", "s">>, <<"U", "B", "I">>, 8000, Null),
    Item("world_facts", NullStr, <<"i", "s">>, <<"t", "a", "x">>, Null, Null),
    Item("my_reaction", <<"B", "o", "b">>, <<"l", "i", "k", "e", "s">>, <<"U", "B", "I">>, 2000, RatingAgain),
    Item("world_facts", <<"i", "t">>, <<"i", "s">>, <<"t", "h", "e">>, Null, Null),
    Item("my_reaction", Missing, <<"l", "i", "k", "e", "s">>, <<"c", "a", "s", "h">>, Null, Null) >>
Batches == {TestBatch, RaisingBatch, RepeatingBatch, <<>>}
AbsorbTimes == { SimDatetime(0), SimDatetime(HoursPerDay), SimRound(1, 9) }

InitAbsorbSpec == InitDefaultCache /\ InitSeq /\ InitThreads /\ InitAgent
NextAbsorb ==
    \E a \in Agents :
        \/ \E t \in AbsorbTimes : absorb.state # "items" /\ SetTime(a, t)
        \/ \E data \in Batches : reviews_done < MaxReviews /\ AbsorbExtract(a, data)
        \/ AbsorbItem(a)
        \/ AbsorbLog(a)
SpecAbsorb == InitAbsorbSpec /\ [][NextAbsorb]_vars

SpecThreads == InitThreadsSpec /\ [][NextThreads]_vars

(***************************************************************************)
(* Claims about AgentCache                                                 *)
(***************************************************************************)
Size(m) == Cardinality(DOMAIN CacheOf(m))

\* C1: on an enabled cache with max_size = N >= 1, a put of a key that is new to a
\* map holding N entries deletes exactly one entry of that map, the one whose last
\* access (put or get) is the oldest; that key is then absent (a get misses) and
\* the other N keys are present with their values.
C1_EvictsExactlyTheOldest ==
    [][ \A m \in Maps :
          LET key == MakeKey(last_call'.args) IN
          ( /\ enabled
            /\ last_call'.op = "put"
            /\ last_call'.map = m
            /\ Size(m) = max_size
            /\ key \notin DOMAIN CacheOf(m) )
          => /\ DOMAIN CacheOf(m) \ DOMAIN CacheOf(m)' = { MakeKey(Head(lru_order[m])[1]) }
             /\ DOMAIN CacheOf(m)' \ DOMAIN CacheOf(m) = { key }
             /\ CacheOf(m)'[key].value = last_call'.value
             /\ \A k \in DOMAIN CacheOf(m) \cap DOMAIN CacheOf(m)' :
                    CacheOf(m)'[k].value = CacheOf(m)[k].value
             /\ Size(m)' = max_size
      ]_vars

C1_Witness ==
    /\ enabled
    /\ last_call.op = "put"
    /\ ref_evicted # <<>>
    /\ MakeKey(ref_evicted) \notin DOMAIN CacheOf(last_call.map)
    /\ Size(last_call.map) = max_size
    /\ max_size = MaxSize

\* C2: a get that hits counts as an access: an entry whose last access was a get
\* hit is not the entry _evict_lru would delete next while its map holds another
\* entry whose last access is older.
C2_HitRefreshesEntry ==
    \A m \in Maps : \A i \in 2..Len(lru_order[m]) :
        ( /\ lru_order[m][i][3] = "get"
          /\ MakeKey(lru_order[m][i][1]) \in DOMAIN CacheOf(m) )
        => LruKey(CacheOf(m)) # MakeKey(lru_order[m][i][1])

C2_Witness ==
    /\ last_call.op = "get"
    /\ ret.value # None
    /\ Size(last_call.map) >= 2
    /\ lru_order[last_call.map][Len(lru_order[last_call.map])][3] = "get"
    /\ lru_order[last_call.map][1][3] = "put"

\* C3: a get returns the value of the most recent put for exactly its own
\* (agent, topic[, time_filter]) when that entry has not been evicted, invalidated
\* or cleared since, and None otherwise; it never returns a value put under other
\* arguments.
C3_GetReturnsLatestPut ==
    last_call.op = "get" =>
        ret.value = IF enabled THEN RefValue(lru_order[last_call.map], last_call.args)
                    ELSE None

C3_Witness ==
    /\ last_call.op = "get"
    /\ ret.value # None
    /\ Len(lru_order[last_call.map]) >= 2

\* C4: on an enabled cache with max_size >= 1 each of the two maps holds at most
\* max_size entries after any sequence of put, get, invalidate_agent and clear.
C4_EachMapBounded ==
    \A m \in Maps : Size(m) <= max_size

C4_Witness ==
    /\ enabled
    /\ ref_evicted # <<>>
    /\ Size(last_call.map) = max_size

\* C5: get_stats()["total_entries"] never exceeds max_size.
C5_TotalEntriesBounded ==
    TotalEntries <= max_size

\* C8: invalidate_agent(name) empties both maps whatever the name, returns the
\* number of entries it removed, and every get after it returns None until the
\* next put.
C8_InvalidateClearsAll ==
    [][ /\ last_call'.op = "invalidate"
           => /\ DOMAIN context_cache' = {}
              /\ DOMAIN memory_cache' = {}
              /\ ret'.count = TotalEntries
        /\ (inval'.active /\ last_call'.op = "get") => ret'.value = None
      ]_vars

C8_Witness ==
    /\ last_call.op = "invalidate"
    /\ inval.agents \ {last_call.args[1]} # {}
    /\ last_call.args[1] \in inval.agents
    /\ ret.count >= 2
    /\ TotalEntries = 0

(***************************************************************************)
(* Claims about AgentCache under concurrent callers                        *)
(***************************************************************************)
InBody(t) == pc[t] \notin {"idle", "lock"}

\* C6: under every interleaving of get/put/invalidate calls of several threads the
\* locked body of a call runs without another thread inside a body, no map ever
\* holds more than max_size entries, no put deletes more than one entry and no
\* call raises.
C6_PutIsAtomic ==
    /\ \A t, u \in Threads : (t # u /\ InBody(t)) => ~InBody(u)
    /\ \A m \in Maps : Size(m) <= max_size
    /\ \A t \in Threads : evictions[t] <= 1
    /\ raised = {}

C6_Witness ==
    \E t, u \in Threads :
        /\ t # u
        /\ pc[t] = "put_store"
        /\ evictions[t] = 1
        /\ pc[u] = "lock"
        /\ op[u].op = "put"
        /\ op[u].map = op[t].map

\* C7: while nothing is evicted or invalidated, a thread's get_context(a, t) that
\* follows its own put_context(a, t, v) returns v under every interleaving with
\* other threads that put and get other keys.
C7_ReadYourOwnPut ==
    \A t \in Threads :
        ( /\ pc[t] = "idle"
          /\ op[t].op = "get"
          /\ own_put[t].map = op[t].map
          /\ own_put[t].args = op[t].args )
        => tret[t].value = own_put[t].value

C7_Witness ==
    \E t, u \in Threads :
        /\ t # u
        /\ pc[t] = "idle"
        /\ op[t].op = "get"
        /\ op[t].map = "context"
        /\ own_put[t].args = op[t].args
        /\ tret[t].value = own_put[t].value
        /\ own_put[u].map = "context"
        /\ own_put[u].args # op[t].args

(***************************************************************************)
(* Claims about the memory scheduler as the agent drives it                *)
(***************************************************************************)
\* the ratings the call just made gave to the concept stored under key
RatingsGiven(key) ==
    IF agent_call'.owner = key[1]
    THEN { agent_call'.reviews[i][2] :
             i \in { j \in 1..Len(agent_call'.reviews) : agent_call'.reviews[j][1] = key[2] } }
    ELSE {}
\* the stored state of a concept, New when it has no row yet
StateIn(ns, key) == IF key \in DOMAIN ns THEN ns[key].state ELSE 0

\* C9: a review with rating r of a concept that was never reviewed (no row, or a
\* row still in state New) stores stability w[r-1], difficulty
\* clamp(w4 - exp(w5*(r-1)) + 1, 1, 10), state Learning (1) and reps 1.
C9_NewCardReview ==
    [][ \A key \in DOMAIN nodes' :
          \A r \in Ratings :
            ( /\ StateIn(nodes, key) = 0
              /\ RatingsGiven(key) = {r}
              /\ Cardinality({ j \in 1..Len(agent_call'.reviews) :
                                 agent_call'.reviews[j][1] = key[2] }) = 1 )
            => /\ nodes'[key].stability = p[r]
               /\ nodes'[key].difficulty =
                    Min(Max(p[5] - Exp(p[6] * (r - 1)) + One, One), 10 * One)
               /\ nodes'[key].state = 1
               /\ nodes'[key].reps = 1 ]_vars

\* a never-reviewed concept has just been rated Easy and its difficulty was
\* clamped up to 1
C9_Witness ==
    /\ Len(agent_call.reviews) = 1
    /\ agent_call.reviews[1][2] = RatingEasy
    /\ LET key == <<agent_call.owner, agent_call.reviews[1][1]>>
       IN /\ key \in DOMAIN nodes
          /\ nodes[key].reps = 1
          /\ nodes[key].state = 1
          /\ nodes[key].stability = p[RatingEasy]
          /\ nodes[key].difficulty = One

\* C10: over any call, in Calendar or Round mode, a stored state never goes
\* back to New (0), becomes Review (2) only when the call rated the concept
\* Hard, Good or Easy, and goes from Review (2) to Learning (1) only when the
\* call rated it Again.
C10_StateOnlyAdvances ==
    [][ \A key \in DOMAIN nodes' :
          LET old == StateIn(nodes, key)
              new == nodes'[key].state
          IN /\ (old # 0 => new # 0)
             /\ (old # 2 /\ new = 2 =>
                   \E r \in RatingsGiven(key) : r \in {RatingHard, RatingGood, RatingEasy})
             /\ (old = 2 /\ new = 1 => RatingAgain \in RatingsGiven(key)) ]_vars

\* the reviews the call just made of the concept stored under key
ReviewsGiven(key) ==
    IF agent_call'.owner = key[1]
    THEN { j \in 1..Len(agent_call'.reviews) : agent_call'.reviews[j][1] = key[2] }
    ELSE {}

\* C11: a review of a concept that was reviewed before adds exactly 1 to its
\* stored reps and records the agent's current simulation time as the time of
\* the last review (last_review for a Calendar clock, sim_day / sim_hour for a
\* Round clock), whatever the rating and the clock mode.
C11_ReviewCountsAndStamps ==
    [][ \A key \in DOMAIN nodes :
          (nodes[key].reps >= 1 /\ Cardinality(ReviewsGiven(key)) = 1)
          => LET now == current_time'[key[1]] IN
             /\ nodes'[key].reps = nodes[key].reps + 1
             /\ IsDatetimeMode(now) => nodes'[key].last_review = ToDatetime(now)
             /\ IsRoundMode(now) => /\ nodes'[key].sim_day = now.day
                                    /\ nodes'[key].sim_hour = now.hour ]_vars

\* C12: every reviewed concept has difficulty within [1, 10] and stability of
\* at least 0.1.
C12_DifficultyAndStabilityBounded ==
    \A key \in DOMAIN nodes :
        nodes[key].reps >= 1
        => /\ One <= nodes[key].difficulty
           /\ nodes[key].difficulty <= 10 * One
           /\ nodes[key].stability >= One \div 10

\* a concept reviewed more than once whose stability rests on the floor of 0.1
C12_Witness ==
    \E key \in DOMAIN nodes :
        /\ nodes[key].reps >= 2
        /\ nodes[key].stability = One \div 10
        /\ nodes[key].difficulty > One

\* the concept under key was reviewed once, with Good, one simulated day
\* before the agent's current time
GoodOneDayAgo(key) ==
    LET now == current_time[key[1]] IN
    /\ nodes[key].reps = 1
    /\ nodes[key].stability = P(2)
    /\ \/ /\ IsDatetimeMode(now)
          /\ nodes[key].last_review # Null
          /\ ToDatetime(now) - nodes[key].last_review = HoursPerDay
       \/ /\ IsRoundMode(now)
          /\ nodes[key].sim_day # Null
          /\ now.day = nodes[key].sim_day + 1
          /\ now.hour = nodes[key].sim_hour

\* C13: learning ("I", "support", "UBI") again, with Good, one simulated day
\* after learning it first leaves the target's stability strictly above w[2],
\* the stability of a single first Good rating.
C13_SecondGoodReinforces ==
    [][ \A key \in DOMAIN nodes :
          ( /\ agent_call'.op = "learn_triplet"
            /\ GoodOneDayAgo(key)
            /\ Cardinality(ReviewsGiven(key)) = 1
            /\ RatingsGiven(key) = {RatingGood} )
          => nodes'[key].stability > P(2) ]_vars

(***************************************************************************)
(* Claims about the memory view of an agent                                *)
(***************************************************************************)
\* the last call was get_memory_view: `view` is what it returned, from the
\* store and the clock as they are now
Viewed == agent_call.op = "get_memory_view"
ViewTopic == Normalize(agent_call.owner, view.topic)
ViewNode == <<agent_call.owner, ViewTopic>>
ViewNow == current_time[agent_call.owner]

\* retrievability by the legacy formula (1 + elapsed_days/(9*S))^-1, 0 when
\* S = 0; elapsed_days is 0 where it cannot be computed (Round mode)
LegacyRetrievability(key, now) ==
    LET S == nodes[key].stability
        lr == nodes[key].last_review
        days == IF IsDatetimeMode(now) /\ lr # Null
                THEN (ToDatetime(now) - lr) \div HoursPerDay ELSE 0
        elapsed_days == IF days < 0 THEN 0 ELSE days
    IN IF S = 0 THEN 0
       ELSE DivFix(One, One + DivFix(elapsed_days * One, 9 * S))

\* C14: get_memory_view(topic) returns the forgotten marker if and only if a
\* node for the normalized topic exists and its retrievability by the legacy
\* formula is below 0.2; it then returns no stance, fact or belief.
C14_ForgottenIffLegacyBelowCutoff ==
    (Viewed /\ ~Falsy(ViewTopic))
    => /\ view.kind = "forgotten"
          <=> /\ ViewNode \in DOMAIN nodes
              /\ LegacyRetrievability(ViewNode, ViewNow) < One \div 5
       /\ view.kind = "forgotten"
          => view.stance = <<>> /\ view.facts = <<>> /\ view.others = <<>>

\* C15: for any topic that normalizes to null or empty, get_memory_view
\* returns the confused marker without raising and without reading the store.
C15_ConfusedWithoutReadingStore ==
    (Viewed /\ (ViewTopic = NullStr \/ ViewTopic = <<>>))
    => /\ view.kind = "confused"
       /\ agent_exc = None
       /\ db_reads = 0

\* a topic of punctuation only, asked of an agent whose store has edges
C15_Witness ==
    /\ Viewed
    /\ view.topic = <<"!", "?">>
    /\ ViewTopic = <<>>
    /\ view.kind = "confused"
    /\ DOMAIN edges # {}

\* an edge of the last caller that counts as its own stance
OwnEdges == { k \in DOMAIN edges :
                k[1] = agent_call.owner /\ (k[2] = SelfToken \/ k[2] = agent_call.owner) }
\* the edge was created more than 60 minutes before the caller's calendar time
CreatedOverAnHourAgo(k) ==
    /\ IsDatetimeMode(ViewNow)
    /\ edges[k].created_at # WallClock
    /\ edges[k].created_at < ToDatetime(ViewNow) - 1

Range(rows) == { rows[i] : i \in 1..Len(rows) }
\* no row twice
NoRepeats(rows) == \A i, j \in 1..Len(rows) : rows[i] = rows[j] => i = j

\* the edges the world-knowledge part is to be drawn from: of the owner, source
\* neither "I" nor the owner's own name, source or target containing the topic
WorldEdges ==
    { k \in DOMAIN edges :
        /\ k[1] = agent_call.owner
        /\ k[2] # SelfToken /\ k[2] # agent_call.owner
        /\ (Contains(k[2], ViewTopic) \/ Contains(k[3], ViewTopic)) }

\* C17: the world-knowledge part of a context is drawn from the owner's edges
\* whose source is neither "I" nor the owner's own name and whose source or
\* target contains the topic as a substring, up to 8 rows of them.
C17_WorldRowsFromOthersOnTopic ==
    (Viewed /\ view.kind = "context")
    => /\ Range(view.world_rows) \subseteq WorldEdges
       /\ NoRepeats(view.world_rows)
       /\ Len(view.world_rows) = Min(8, Cardinality(WorldEdges))

\* simulated time in hours: of a Calendar clock, or of a Round clock (day, hour)
SimHours(t) == IF IsDatetimeMode(t) THEN ToDatetime(t) ELSE t.day * HoursPerDay + t.hour
\* the simulated time an edge was created at, on the clock it was created under
SimCreated(k) ==
    IF edges[k].sim_day # Null
    THEN edges[k].sim_day * HoursPerDay + edges[k].sim_hour
    ELSE edges[k].created_at
\* the edge was created under the kind of clock the caller has now
SameClock(k) == IsRoundMode(ViewNow) <=> edges[k].sim_day # Null
CreatedWithinTheHour(k) == SameClock(k) /\ SimCreated(k) >= SimHours(ViewNow) - 1

\* the own edges that qualify for the stance; an edge created under the other
\* kind of clock has no simulated age and is left open
StanceEdges ==
    { k \in OwnEdges : Contains(k[3], ViewTopic) \/ CreatedWithinTheHour(k) }
StanceEdgesAtMost ==
    { k \in OwnEdges : Contains(k[3], ViewTopic) \/ CreatedWithinTheHour(k) \/ ~SameClock(k) }
CreatedLater(a, b) == SameClock(a) /\ SameClock(b) /\ SimCreated(a) > SimCreated(b)

\* C18: the stance part of a context consists of the owner's edges whose source
\* is "I" or the owner's own name and whose target contains the topic or that
\* were created within the last 60 minutes of simulated time; when more than 8
\* qualify, the 8 most recently created are used, newest first.
C18_StanceRowsRecentOrOnTopic ==
    (Viewed /\ view.kind = "context")
    => LET rows == view.my_rows IN
       /\ Range(rows) \subseteq StanceEdgesAtMost
       /\ NoRepeats(rows)
       /\ Len(rows) >= Min(8, Cardinality(StanceEdges))
       /\ Len(rows) <= 8
       /\ Len(rows) < 8 => StanceEdges \subseteq Range(rows)
       /\ \A i, j \in 1..Len(rows) : i < j => ~CreatedLater(rows[j], rows[i])
       /\ \A k \in StanceEdges \ Range(rows) :
              \A i \in 1..Len(rows) : ~CreatedLater(k, rows[i])

\* C19: every context returned by get_memory_view contains at most 8 stance
\* items, at most 5 known facts and at most 3 others' beliefs, however many
\* edges the owner has; a world-knowledge row appears in exactly one of the two
\* lists, decided by the fixed relation whitelist.
C19_ContextSizesAndSplit ==
    (Viewed /\ view.kind = "context")
    => /\ Len(view.stance) <= 8
       /\ Len(view.facts) <= 5
       /\ Len(view.others) <= 3
       /\ \A i \in 1..Len(view.world_rows) :
            LET k == view.world_rows[i]
                listed == k[4] \in others_relations
                str == FactStr(edges, k)
            IN /\ str \in Range(view.facts) => ~listed
               /\ str \in Range(view.others) => listed
               /\ (~listed /\ Len(view.facts) < 5) => str \in Range(view.facts)
               /\ (listed /\ Len(view.others) < 3) => str \in Range(view.others)

\* more fact rows than the context shows, next to beliefs of others
C19_Witness ==
    /\ Viewed /\ view.kind = "context"
    /\ Len(SelectSeq(view.world_rows, IsFactRow)) > 5
    /\ Len(view.facts) = 5
    /\ view.others # <<>>

\* C20: get_memory_view is read-only: it leaves every node (stability,
\* difficulty, reps, state and last_review of the topic included) and every
\* edge unchanged, and the clock and the review count with them: recalling a
\* topic is not a review.
C20_MemoryViewIsReadOnly ==
    [][ agent_call'.op = "get_memory_view"
        => /\ nodes' = nodes
           /\ edges' = edges
           /\ current_time' = current_time
           /\ reviews_done' = reviews_done ]_vars

\* a context was returned for a topic the agent has reviewed and holds a
\* stance on
C20_Witness ==
    /\ Viewed /\ view.kind = "context"
    /\ ViewNode \in DOMAIN nodes
    /\ nodes[ViewNode].reps >= 1
    /\ view.stance # <<>>
    /\ view.facts # <<>>

(***************************************************************************)
(* Claims about the functions that touch no state                          *)
(***************************************************************************)
QualifierAsked == pure_call.op = "_get_sentiment_qualifier" /\ pure_call.args[1] # Null

\* C21: the sentiment qualifier is empty when |s| < 0.1 and otherwise
\* " (very positively)" for s > 0.6, " (positively)" for 0.3 < s <= 0.6,
\* " (somewhat positively)" for 0.1 < s <= 0.3, with the mirrored negative
\* qualifiers for s < -0.6, -0.6 <= s < -0.3 and -0.3 <= s < -0.1.
C21_QualifierBands ==
    QualifierAsked
    => LET s == pure_call.args[1]
           q == pure_call.result
       IN /\ (0 - 1000 < s /\ s < 1000) => q = <<>>
          /\ s > 6000 => q = <<" ", "(", "v", "e", "r", "y", " ", "p", "o", "s", "i", "t", "i", "v", "e", "l", "y", ")">>
          /\ (3000 < s /\ s <= 6000) => q = <<" ", "(", "p", "o", "s", "i", "t", "i", "v", "e", "l", "y", ")">>
          /\ (1000 < s /\ s <= 3000) => q = <<" ", "(", "s", "o", "m", "e", "w", "h", "a", "t", " ", "p", "o", "s", "i", "t", "i", "v", "e", "l", "y", ")">>
          /\ s < 0 - 6000 => q = <<" ", "(", "v", "e", "r", "y", " ", "n", "e", "g", "a", "t", "i", "v", "e", "l", "y", ")">>
          /\ (0 - 6000 <= s /\ s < 0 - 3000) => q = <<" ", "(", "n", "e", "g", "a", "t", "i", "v", "e", "l", "y", ")">>
          /\ (0 - 3000 <= s /\ s < 0 - 1000) => q = <<" ", "(", "s", "o", "m", "e", "w", "h", "a", "t", " ", "n", "e", "g", "a", "t", "i", "v", "e", "l", "y", ")">>

\* the band edge 0.6 itself, which is still " (positively)"
C21_Witness ==
    /\ QualifierAsked
    /\ pure_call.args[1] = 6000
    /\ pure_call.result = <<" ", "(", "p", "o", "s", "i", "t", "i", "v", "e", "l", "y", ")">>

RetrievabilityAsked(call) ==
    /\ call.op = "_get_retrievability"
    /\ IsDatetimeMode(call.args[1])
    /\ call.args[2] > 0
    /\ call.args[3] # Null
\* hours from last_review to the clock of the call
ElapsedHours(call) == ToDatetime(call.args[1]) - call.args[3]

\* C22: for fixed stability S > 0 the read-path retrievability is strictly
\* decreasing in the time elapsed since last_review, and is 1.0 at elapsed = 0.
C22_RetrievabilityStrictlyDecreasing ==
    [][ RetrievabilityAsked(pure_call')
        => /\ ElapsedHours(pure_call') = 0 => pure_call'.result = One
           /\ ( /\ RetrievabilityAsked(pure_call)
                /\ pure_call.args[2] = pure_call'.args[2]
                /\ pure_call.args[3] = pure_call'.args[3]
                /\ 0 <= ElapsedHours(pure_call)
                /\ ElapsedHours(pure_call) < ElapsedHours(pure_call') )
              => pure_call'.result < pure_call.result ]_vars

TripleAsked == pure_call.op = "_is_valid_triple"
Given(text) == text # NullStr /\ text # <<>>

\* C23: a normalized triplet is admissible if and only if source, relation and
\* target are all non-null and non-empty, source and target each have length
\* >= 2 or equal "I", neither source nor target is a stopword or a banned
\* generic node, and the relation is not a banned grammatical/meta label.
C23_AdmissibleIff ==
    TripleAsked
    => LET src == pure_call.args[1]
           rel == pure_call.args[2]
           tgt == pure_call.args[3]
       IN pure_call.result
          <=> /\ Given(src) /\ Given(rel) /\ Given(tgt)
              /\ Len(src) >= 2 \/ src = <<"I">>
              /\ Len(tgt) >= 2 \/ tgt = <<"I">>
              /\ src \notin stopwords \cup banned_nodes
              /\ tgt \notin stopwords \cup banned_nodes
              /\ rel \notin banned_relations

\* (it, is, the) and (a, noun, text) are rejected, (climate, causes, drought)
\* is admitted: the last of the three was asked
C23_Witness ==
    /\ TripleAsked
    /\ pure_call.args = << <<"c", "l", "i", "m", "a", "t", "e">>, <<"c", "a", "u", "s", "e", "s">>,
                           <<"d", "r", "o", "u", "g", "h", "t">> >>
    /\ pure_call.result = TRUE

(***************************************************************************)
(* Claims about the write path of an agent and its store                   *)
(***************************************************************************)
\* the step is agent.learn_triplet of the next triple of the feed
LearnsFed == fed' = fed + 1 /\ feed[fed'].via = "learn_triplet"
\* that triple, normalized, is admissible
FedAdmissible(f, name) ==
    IsValidTriple(Normalize(name, f.source), Normalize(name, f.relation),
                  Normalize(name, f.target))

\* C24: learn_triplet on an inadmissible triplet returns without error and
\* leaves the store unchanged: no node is created, no memory state is reviewed
\* and no edge is written.
C24_RejectedTripletLeavesStore ==
    [][ (LearnsFed /\ ~FedAdmissible(feed[fed'], agent_call'.owner))
        => /\ agent_exc' = None
           /\ nodes' = nodes
           /\ edges' = edges ]_vars

\* (a, noun, text) was just dropped by an agent that knows something already
C24_Witness ==
    /\ fed = 3
    /\ agent_call.op = "learn_triplet"
    /\ ~FedAdmissible(feed[fed], agent_call.owner)
    /\ agent_exc = None
    /\ DOMAIN edges # {}
    /\ Cardinality(DOMAIN nodes) = 3

NormalizeAsked == pure_call.op = "_normalize"

\* C25: normalize maps the owning agent's own name (whatever that name is),
\* "I", "me" and "myself", in any letter case, to the canonical token "I", and
\* maps empty input to null.
C25_SelfReferencesBecomeI ==
    NormalizeAsked
    => LET name == pure_call.args[1]
           text == pure_call.args[2]
       IN /\ ( /\ text # NullStr
               /\ Lower(text) \in { Lower(name), <<"i">>, <<"m", "e">>,
                                    <<"m", "y", "s", "e", "l", "f">> } )
             => pure_call.result = <<"I">>
          /\ text = <<>> => pure_call.result = NullStr

(***************************************************************************)
(* Claims about two agents on one shared database                          *)
(***************************************************************************)
\* the call of the script that this step makes, and the agent that makes it
FedCall == feed[fed']
FedBy(a) == fed' = fed + 1 /\ agent_call'.owner = a
AddsDirectly(a) == FedBy(a) /\ FedCall.via = "add_relation"
FedKey(a) == <<a, FedCall.source, FedCall.target, FedCall.relation>>
OutOfRange(sentiment) == sentiment # Null /\ (sentiment < 0 - One \/ sentiment > One)

FedEdge(a) ==
    IF FedCall.via = "learn_triplet"
    THEN <<a, Normalize(a, FedCall.source), Normalize(a, FedCall.target),
           Normalize(a, FedCall.relation)>>
    ELSE FedKey(a)
FedSentiment == IF FedCall.sentiment = Null THEN 0 ELSE FedCall.sentiment
ReAdds(a) ==
    /\ FedBy(a)
    /\ FedCall.via \in {"add_relation", "learn_triplet"}
    /\ FedEdge(a) \in DOMAIN edges
    /\ ~OutOfRange(FedCall.sentiment)

\* C27: edges are unique per (owner, source, relation, target): adding a
\* relation whose key already exists overwrites that edge's sentiment and
\* timestamp and leaves the number of edges unchanged.
C27_ReAddOverwrites ==
    [][\A a \in SharedAgents :
          ReAdds(a) =>
             /\ Cardinality(DOMAIN edges') = Cardinality(DOMAIN edges)
             /\ edges'[FedEdge(a)].sentiment = FedSentiment
             /\ edges'[FedEdge(a)].created_at = TsOf(current_time[a])
             /\ edges'[FedEdge(a)].sim_day = SimDayOf(current_time[a])
             /\ edges'[FedEdge(a)].sim_hour = SimHourOf(current_time[a])]_vars

\* the same, for the re-adding calls made under a Calendar clock
C27_ReAddOverwritesUnderCalendar ==
    [][\A a \in SharedAgents :
          (ReAdds(a) /\ IsDatetimeMode(current_time[a])) =>
             /\ Cardinality(DOMAIN edges') = Cardinality(DOMAIN edges)
             /\ edges'[FedEdge(a)].sentiment = FedSentiment
             /\ edges'[FedEdge(a)].created_at = TsOf(current_time[a])
             /\ edges'[FedEdge(a)].sim_day = SimDayOf(current_time[a])
             /\ edges'[FedEdge(a)].sim_hour = SimHourOf(current_time[a])]_vars

\* re-adding never changes the number of edges
C27_ReAddKeepsCount ==
    [][\A a \in SharedAgents :
          ReAdds(a) => Cardinality(DOMAIN edges') = Cardinality(DOMAIN edges)]_vars

\* the nodes and edges of one owner
NodesOf(ns, owner) == [k \in { q \in DOMAIN ns : q[1] = owner } |-> ns[k]]
EdgesOf(es, owner) == [k \in { q \in DOMAIN es : q[1] = owner } |-> es[k]]
ViewRows == { view.my_rows[i] : i \in 1..Len(view.my_rows) }
               \cup { view.world_rows[i] : i \in 1..Len(view.world_rows) }

\* C28: knowledge is isolated per owner on a shared database: learn_triplet,
\* update_memory and add_relation of owner A never create or change a node or
\* an edge of another owner B, and get_memory_view of B never includes an edge
\* owned by A.
C28_OwnersIsolated ==
    /\ [][\A a \in SharedAgents :
            FedBy(a) => \A b \in SharedAgents \ {a} :
                           /\ NodesOf(nodes', b) = NodesOf(nodes, b)
                           /\ EdgesOf(edges', b) = EdgesOf(edges, b)]_vars
    /\ [](agent_call.op = "get_memory_view"
             => \A k \in ViewRows : k[1] = agent_call.owner)

\* Bob was given a view with rows in it while Alice owns edges on the topic,
\* and each of them has written after the other had nodes and edges
C28_Witness ==
    /\ agent_call.op = "get_memory_view"
    /\ agent_call.owner = BobName
    /\ ViewRows # {}
    /\ \E k \in DOMAIN edges : k[1] = AliceName /\ k[3] = <<"u", "b", "i">>
    /\ Cardinality(DOMAIN NodesOf(nodes, AliceName)) >= 3
    /\ Cardinality(DOMAIN NodesOf(nodes, BobName)) >= 3

(***************************************************************************)
(* Claims about SimulationTime                                             *)
(***************************************************************************)
TimeConstructed == pure_call.op = "SimulationTime"
ExactlyOneMode(t) == IsDatetimeMode(t) # IsRoundMode(t)

\* C29: a SimulationTime carries exactly one variant: constructing it with a
\* datetime together with a day or an hour, with nothing, or with only one of
\* day and hour fails with ValueError, as do a day below 1 and an hour outside
\* 0..23; of every constructed object, and of every agent's clock, exactly one
\* of is_datetime_mode() and is_round_mode() is true.
C29_ExactlyOneVariant ==
    /\ \A a \in DOMAIN current_time : ExactlyOneMode(current_time[a])
    /\ TimeConstructed
       => LET datetime_value == pure_call.args[1]
              day == pure_call.args[2]
              hour == pure_call.args[3]
              both == datetime_value # Nothing /\ (day # Nothing \/ hour # Nothing)
              neither == datetime_value = Nothing /\ day = Nothing /\ hour = Nothing
              partial == datetime_value = Nothing /\ ((day = Nothing) # (hour = Nothing))
              bad_day == datetime_value = Nothing /\ day # Nothing /\ hour # Nothing
                           /\ day[1] < 1
              bad_hour == datetime_value = Nothing /\ day # Nothing /\ hour # Nothing
                           /\ (hour[1] < 0 \/ hour[1] > 23)
          IN /\ (both \/ neither \/ partial \/ bad_day \/ bad_hour)
                   <=> pure_call.result.exc = "ValueError"
             /\ pure_call.result.exc = None
                   => /\ ExactlyOneMode(pure_call.result.value)
                      /\ IsDatetimeMode(pure_call.result.value) <=> datetime_value # Nothing

\* SimulationTime(day=5, hour=23) was constructed and is in Round mode
C29_Witness ==
    /\ TimeConstructed
    /\ pure_call.args = <<Nothing, Some(5), Some(23)>>
    /\ pure_call.result.exc = None
    /\ IsRoundMode(pure_call.result.value)
    /\ ~IsDatetimeMode(pure_call.result.value)

(***************************************************************************)
(* Claims about the lazily built singletons                                *)
(***************************************************************************)
\* C30: under concurrent first access each lazily initialized singleton
\* (ModelCache.get_gliner_model, get_global_cache) is constructed at most once,
\* and every caller is given the same instance.
C30_SingletonBuiltOnce ==
    \A g \in Getters :
        /\ singleton.constructed[g] <= 1
        /\ Cardinality(singleton.returned[g]) <= 1
        /\ singleton.returned[g] \subseteq {singleton.instance[g]}

\* two callers found no instance at the first check; one has built it and been
\* given it, the other holds the lock and finds it at the second check
C30_Witness ==
    \E g \in Getters, c \in Callers :
        /\ singleton.pc[c] = "recheck"
        /\ singleton.getter[c] = g
        /\ singleton.instance[g] # Null
        /\ singleton.returned[g] = {1}

(***************************************************************************)
(* Claims about CognitiveLoop.absorb                                       *)
(***************************************************************************)
\* an item that has a source, a relation and a target (a relation and a
\* target for my_reaction items), none of them None or empty
Has(value) == value # Missing /\ value # NullStr /\ value # <<>>
WellFormed(item) ==
    /\ Has(item.relation)
    /\ Has(item.target)
    /\ item.list # "my_reaction" => Has(item.source)
WellFormedItems == SelectSeq(absorb.data, WellFormed)
\* the well-formed items among the first n
WellFormedUpTo(n) == SelectSeq(SubSeq(absorb.data, 1, n), WellFormed)
CalledFor(call, item) ==
    /\ call.relation = item.relation
    /\ call.target = item.target
    /\ call.source = IF item.list = "my_reaction" THEN SelfToken ELSE item.source

\* C31: in absorb an extracted item that lacks a source, a relation or a
\* target (a relation or a target for my_reaction items) is skipped and
\* processing continues: learn_triplet is called exactly once per well-formed
\* item, in order, and the batch ends without an error unless a learn_triplet
\* call itself raised.
C31_MalformedItemsSkipped ==
    /\ Len(absorb.calls) = Len(WellFormedUpTo(absorb.index))
    /\ \A i \in 1..Len(absorb.calls) :
          CalledFor(absorb.calls[i], WellFormedUpTo(absorb.index)[i])
    /\ absorb.state = "done"
          => /\ absorb.exc = None
             /\ absorb.index = Len(absorb.data)
             /\ Len(absorb.calls) = Len(WellFormedItems)
    /\ absorb.state = "raised"
          => /\ absorb.exc # None
             /\ absorb.index >= 1
             /\ WellFormed(absorb.data[absorb.index])

\* the batch of the repository's test has run to its end: seven items with
\* missing keys were skipped and three were learned
C31_Witness ==
    /\ absorb.state = "done"
    /\ absorb.data = TestBatch
    /\ Len(absorb.calls) = 3
    /\ Cardinality(DOMAIN edges) >= 2

\* the topic asked about has been reviewed by the agent at least once
ViewTopicLearned == ViewNode \in DOMAIN nodes /\ nodes[ViewNode].reps >= 1

\* C32: while the agent's clock is in Round mode elapsed days fall back to 0 on
\* the read path, so a topic the agent has learned keeps high retrievability
\* (1.0) and get_memory_view never returns the forgotten marker for it.
C32_RoundModeNeverForgets ==
    (Viewed /\ ~Falsy(ViewTopic) /\ IsRoundMode(ViewNow) /\ ViewTopicLearned)
    => /\ GetRetrievability(ViewNow, nodes[ViewNode].stability,
                            nodes[ViewNode].last_review) = One
       /\ view.kind # "forgotten"

\* the same for the topics whose last review was made under a Calendar clock
C32_RoundModeKeepsCalendarReviews ==
    (Viewed /\ ~Falsy(ViewTopic) /\ IsRoundMode(ViewNow) /\ ViewTopicLearned
       /\ nodes[ViewNode].last_review # Null)
    => /\ GetRetrievability(ViewNow, nodes[ViewNode].stability,
                            nodes[ViewNode].last_review) = One
       /\ view.kind # "forgotten"

(***************************************************************************)
(* Claims about what learn_triplet does to the memory states               *)
(***************************************************************************)
\* the call of the script this step makes is a learn_triplet the gatekeeper admits
LearnsAdmitted(a) ==
    /\ FedBy(a)
    /\ FedCall.via = "learn_triplet"
    /\ FedAdmissible(FedCall, a)
FedRating == IF FedCall.rating = Null THEN RatingGood ELSE FedCall.rating

\* one review with `rating` applied to the memory state of the node `id`
ReviewApplied(ns, a, id, rating) ==
    UpsertNode(ns, a, id, CalculateNext(CurrentState(ns, a, id), rating, current_time[a]),
               current_time[a])
\* the nodes after the reviews an admitted learn_triplet owes
NodesAfterLearning(a) ==
    LET source == Normalize(a, FedCall.source)
        target == Normalize(a, FedCall.target)
        ns1 == ReviewApplied(nodes, a, target, FedRating)
    IN IF source # SelfToken THEN ReviewApplied(ns1, a, source, RatingGood) ELSE ns1

\* C33: an admitted learn_triplet(source, relation, target, rating) applies
\* one review with the given rating to the target's memory state and, if and
\* only if the normalized source is not "I", one review with rating Good to the
\* source's memory state, then upserts the edge; the memory state of no other
\* node, the "I" node included, changes.
C33_LearnReviewsTargetAndSource ==
    [][\A a \in Agents :
          LearnsAdmitted(a) =>
             /\ nodes' = NodesAfterLearning(a)
             /\ agent_exc' = None => FedEdge(a) \in DOMAIN edges']_vars

\* the same for the triples whose normalized source and target are left as
\* they are by a second normalization
NormalizesOnce(a, text) == Normalize(a, Normalize(a, text)) = Normalize(a, text)
C33_HoldsForStableNames ==
    [][\A a \in Agents :
          (LearnsAdmitted(a) /\ NormalizesOnce(a, FedCall.source)
                             /\ NormalizesOnce(a, FedCall.target)) =>
             /\ nodes' = NodesAfterLearning(a)
             /\ agent_exc' = None => FedEdge(a) \in DOMAIN edges']_vars

\* this step normalizes what the last call of normalize returned
NormalizesAgain ==
    /\ pure_call.op = "_normalize"
    /\ pure_call'.op = "_normalize"
    /\ pure_call'.args = <<pure_call.args[1], pure_call.result>>
Trimmed(text) ==
    (text # NullStr /\ text # <<>>)
    => text[1] \notin Whitespace /\ text[Len(text)] \notin Whitespace

\* C36: normalize returns a string with no leading or trailing whitespace and
\* is idempotent: normalize(normalize(x)) = normalize(x) for every input x,
\* inputs that mix punctuation and spaces included.
C36_NormalizeTrimsAndIsIdempotent ==
    /\ [](NormalizeAsked => Trimmed(pure_call.result))
    /\ [][NormalizesAgain => pure_call'.result = pure_call.result]_vars

\* normalize is idempotent on the inputs it maps to None or to a string that
\* is not empty and has no leading or trailing whitespace
C36_IdempotentOnTrimmedResults ==
    [][(NormalizesAgain /\ Trimmed(pure_call.result) /\ pure_call.result # <<>>)
          => pure_call'.result = pure_call.result]_vars

(***************************************************************************)
(* Claims about the context after a write                                  *)
(***************************************************************************)
\* the last call of the script was an admitted learn_triplet("I", rel, tgt) of
\* the viewing agent, and the edge it wrote carries the present simulation time
LastFed == feed[fed]
LastEdge ==
    <<agent_call.owner, Normalize(agent_call.owner, LastFed.source),
      Normalize(agent_call.owner, LastFed.target),
      Normalize(agent_call.owner, LastFed.relation)>>
JustLearnedOwnStance ==
    /\ fed >= 1
    /\ LastFed.via = "learn_triplet"
    /\ LastEdge[2] = SelfToken
    /\ FedAdmissible(LastFed, agent_call.owner)
    /\ LastEdge \in DOMAIN edges
    /\ edges[LastEdge].created_at = TsOf(ViewNow)
    /\ edges[LastEdge].sim_day = SimDayOf(ViewNow)
    /\ edges[LastEdge].sim_hour = SimHourOf(ViewNow)
AsksAboutLastTarget ==
    /\ Viewed
    /\ ~Falsy(ViewTopic)
    /\ JustLearnedOwnStance
    /\ Contains(LastEdge[3], ViewTopic)

\* C34: the context reflects writes: after an admitted
\* learn_triplet("I", rel, tgt), get_memory_view(topic) at the same simulation
\* time contains the stance "I rel tgt" for every topic that is a substring of
\* the normalized target.
C34_ContextReflectsWrite ==
    AsksAboutLastTarget
    => /\ view.kind = "context"
       /\ BeliefStr(edges, LastEdge) \in Range(view.stance)

\* the same under a Calendar clock
C34_UnderCalendar ==
    (AsksAboutLastTarget /\ IsDatetimeMode(ViewNow))
    => /\ view.kind = "context"
       /\ BeliefStr(edges, LastEdge) \in Range(view.stance)

\* the same under a Calendar clock while the agent owns at most eight stance
\* edges
C34_UnderCalendarWithinLimits ==
    (AsksAboutLastTarget /\ IsDatetimeMode(ViewNow)
       /\ Cardinality({ k \in DOMAIN edges : k[1] = agent_call.owner
                                              /\ k[2] \in {SelfToken, agent_call.owner} }) <= 8)
    => /\ view.kind = "context"
       /\ BeliefStr(edges, LastEdge) \in Range(view.stance)

(***************************************************************************)
(* Claims about a put on a key that is already cached                      *)
(***************************************************************************)
OtherMap(m) == IF m = "context" THEN "memory" ELSE "context"
Stamps(m) == { CacheOf(m)[k].stamp : k \in DOMAIN CacheOf(m) }

\* C35: on an enabled cache a put on a key its map already holds replaces the
\* value and gives the entry the newest access stamp without evicting anything,
\* also when the map is full: the map keeps its keys and its size, every other
\* entry keeps its value and stamp, and the other map is untouched.
C35_PutOnCachedKeyEvictsNothing ==
    [][ \A m \in Maps :
          LET key == MakeKey(last_call'.args) IN
          ( /\ enabled
            /\ last_call'.op = "put"
            /\ last_call'.map = m
            /\ key \in DOMAIN CacheOf(m) )
          => /\ DOMAIN CacheOf(m)' = DOMAIN CacheOf(m)
             /\ CacheOf(m)'[key].value = last_call'.value
             /\ CacheOf(m)'[key].stamp > CacheOf(m)[key].stamp
             /\ \A k \in DOMAIN CacheOf(m) \ {key} :
                    /\ CacheOf(m)'[k] = CacheOf(m)[k]
                    /\ CacheOf(m)'[k].stamp < CacheOf(m)'[key].stamp
             /\ CacheOf(OtherMap(m))' = CacheOf(OtherMap(m))
      ]_vars

\* a full map whose newest entry was stamped twice in a row, last by a put: the
\* stamps 1..max_size-1 are those of the first puts since construction or
\* clear(), the stamp max_size is gone and max_size+1 took its place
C35_Witness ==
    /\ enabled
    /\ max_size = MaxSize
    /\ last_call.op = "put"
    /\ Size(last_call.map) = max_size
    /\ TotalEntries = max_size
    /\ access_counter = max_size + 1
    /\ Stamps(last_call.map) = (1..(max_size - 1)) \cup {max_size + 1}
    /\ CacheOf(last_call.map)[MakeKey(last_call.args)] =
           [value |-> last_call.value, stamp |-> access_counter]

(***************************************************************************)
(* Claims about reviews of one concept that run side by side               *)
(***************************************************************************)
MemoryStateOf(row) ==
    NodeState(row.stability, row.difficulty, row.last_review, row.reps, row.state)

\* C37: when reviews of the same (owner, concept) run side by side, the record
\* stored is the complete memory state written by the call that wrote last:
\* stability, difficulty, last_review, reps and state all come from that call
\* and are never a mixture of two calls.
C37_LastWriteWins ==
    reviewers.last_write # NoNodeState
    => MemoryStateOf(nodes[ReviewKey]) = reviewers.last_write

\* a call whose session loaded the row as it still is when the session commits
\* leaves its complete memory state
C37_WriteOnCurrentRowIsComplete ==
    [][ \A r \in Reviewers :
          ( /\ reviewers.pc[r] = "commit"
            /\ reviewers'.pc[r] = "idle"
            /\ reviewers.existing_node[r] = LoadedRow(nodes, ReviewKey) )
          => MemoryStateOf(nodes'[ReviewKey]) = reviewers.new_state[r]
      ]_vars

(***************************************************************************)
(* Claims about the store after learn_triplet and add_relation             *)
(***************************************************************************)
\* a learn_triplet of an admissible triple that ends with the ValidationError
\* of a sentiment outside [-1, 1]
LearnFailsOnSentiment(a) ==
    /\ LearnsAdmitted(a)
    /\ OutOfRange(FedCall.sentiment)
    /\ agent_exc' = "ValidationError"

\* C38: a learn_triplet that fails with ValidationError because of a sentiment
\* out of range leaves the store as it was before the call: no memory state is
\* reviewed, no node is created and no edge is written.
C38_FailedLearnLeavesStore ==
    [][ \A a \in Agents :
          LearnFailsOnSentiment(a) => (nodes' = nodes /\ edges' = edges)
      ]_vars

\* the same for the edges alone
C38_FailedLearnWritesNoEdge ==
    [][ \A a \in Agents :
          LearnFailsOnSentiment(a) => edges' = edges
      ]_vars

\* in SpecLearn every learn_triplet with a sentiment out of range ends with
\* ValidationError
C38_OutOfRangeLearnRaises ==
    [][ \A a \in Agents :
          (LearnsAdmitted(a) /\ OutOfRange(FedCall.sentiment))
          => agent_exc' = "ValidationError"
      ]_vars

\* C39: referential integrity: after any sequence of learn_triplet and
\* add_relation calls the source and the target of every stored edge exist as
\* nodes under the owner of the edge.
C39_EdgeEndpointsAreNodes ==
    \A k \in DOMAIN edges :
        /\ <<k[1], k[2]>> \in DOMAIN nodes
        /\ <<k[1], k[3]>> \in DOMAIN nodes

\* the script has run to its end and has left edges written by learn_triplet
\* and by add_relation, one of them on an endpoint that no review has touched
C39_Witness ==
    /\ fed = Len(feed)
    /\ Cardinality(DOMAIN edges) >= 3
    /\ \E k \in DOMAIN edges :
          /\ <<k[1], k[2]>> \in DOMAIN nodes
          /\ nodes[<<k[1], k[2]>>].reps = 0
          /\ k[2] # SelfToken

\* the nodes as the two update_memory calls of an admitted learn_triplet leave
\* them, before add_relation runs
NodesReviewedByLearn(a) ==
    LET n_source == Normalize(a, FedCall.source)
        n_target == Normalize(a, FedCall.target)
        ns1 == Reviewed(nodes, a, n_target, FedRating)
    IN IF n_source # SelfToken THEN Reviewed(ns1, a, n_source, RatingGood) ELSE ns1

\* C40: upsert_node without an FSRS state leaves stability, difficulty,
\* last_review, reps and state of an existing node as they are, so add_relation,
\* which upserts both endpoints, never resets a memory state a preceding review
\* has written: neither when it is called directly nor at the end of
\* learn_triplet, after the reviews of that call.
C40_AddRelationKeepsMemoryStates ==
    [][\A a \in Agents :
          /\ AddsDirectly(a)
             => \A k \in DOMAIN nodes : MemoryStateOf(nodes'[k]) = MemoryStateOf(nodes[k])
          /\ LearnsAdmitted(a)
             => \A k \in DOMAIN NodesReviewedByLearn(a) :
                    MemoryStateOf(nodes'[k]) = MemoryStateOf(NodesReviewedByLearn(a)[k])
      ]_vars

\* add_relation has just been called directly on a target that reviews had
\* brought to a memory state before
C40_Witness ==
    /\ fed >= 1
    /\ feed[fed].via = "add_relation"
    /\ agent_exc = None
    /\ <<agent_call.owner, feed[fed].target>> \in DOMAIN nodes
    /\ nodes[<<agent_call.owner, feed[fed].target>>].reps >= 1
    /\ <<agent_call.owner, feed[fed].source, feed[fed].target, feed[fed].relation>>
           \in DOMAIN edges

====
